---- MODULE Spec2Model ----
(***************************************************************************)
(* Model of the workspace flow-chart generator (src/src/extension.ts):     *)
(* the file collector readFolderRecursive and the diagram builder          *)
(* convertFolderToFlowchart with its helpers makeId,                       *)
(* extractImportsAndSymbols and resolveImport.                             *)
(*                                                                         *)
(* Strings are TLA+ strings; a path is the string the program holds.       *)
(* The text of a file is a sequence of statements (tokens), each a record  *)
(* [k, v]: k is the kind of statement one of the scanner's regular         *)
(* expressions matches and v the text its capture group yields.            *)
(* The Mermaid text is the sequence of its lines, each a record            *)
(* [t, a, b, l, n]: line type, first identifier, second identifier,        *)
(* label text and number (the line count of a fallback node).              *)
(***************************************************************************)
EXTENDS Integers, Sequences, FiniteSets, TLC

(***************************************************************************)
(* Bounds of the model.                                                    *)
(***************************************************************************)
\* most import statements in all the files of one input together, when the
\* files import one another
MaxImports == 3
\* the same when the files also import packages and missing files
MaxMixedImports == 2
\* most function and class declarations in all the files of one input together
MaxDecls == 10
\* most directory entries below the scanned root
MaxEntries == 3
\* most entries of a tree on which stat or readFile fails
MaxFaults == 1
\* most directory entries below the root a command scans
MaxCommandEntries == 2

\* files collected beyond the length the dashed chain is cut to
MaxBeyondCap == 1

(***************************************************************************)
(* Strings.                                                                *)
(***************************************************************************)
CharAt(s, i) == SubSeq(s, i, i)

StartsWith(s, p) == Len(s) >= Len(p) /\ SubSeq(s, 1, Len(p)) = p

\* String.prototype.includes
Includes(s, p) == \E i \in 1..(Len(s) - Len(p) + 1) : SubSeq(s, i, i + Len(p) - 1) = p

\* index of the last occurrence of the one-character string c in s, 0 if none
LastIndexOf(s, c) ==
    IF \E i \in 1..Len(s) : CharAt(s, i) = c
    THEN CHOOSE i \in 1..Len(s) :
            /\ CharAt(s, i) = c
            /\ \A j \in (i + 1)..Len(s) : CharAt(s, j) # c
    ELSE 0

LowerCaseLetters == <<"a", "b", "c", "d", "e", "f", "g", "h", "i", "j", "k", "l", "m",
                      "n", "o", "p", "q", "r", "s", "t", "u", "v", "w", "x", "y", "z">>
UpperCaseLetters == <<"A", "B", "C", "D", "E", "F", "G", "H", "I", "J", "K", "L", "M",
                      "N", "O", "P", "Q", "R", "S", "T", "U", "V", "W", "X", "Y", "Z">>
Digits == {"0", "1", "2", "3", "4", "5", "6", "7", "8", "9"}

\* the character class [a-zA-Z0-9_] of makeId's first regular expression
IdChars == {LowerCaseLetters[i] : i \in 1..26} \cup {UpperCaseLetters[i] : i \in 1..26}
              \cup Digits \cup {"_"}

LowerChar(c) ==
    IF \E i \in 1..26 : UpperCaseLetters[i] = c
    THEN LowerCaseLetters[CHOOSE i \in 1..26 : UpperCaseLetters[i] = c]
    ELSE c

RECURSIVE toLowerCase(_)
toLowerCase(s) ==
    IF s = "" THEN "" ELSE LowerChar(CharAt(s, 1)) \o toLowerCase(SubSeq(s, 2, Len(s)))

(***************************************************************************)
(* Paths (node's path module, POSIX flavour).                              *)
(***************************************************************************)
\* the segments of a path: the pieces between the "/" separators
RECURSIVE Segments(_)
Segments(p) ==
    IF p = "" THEN <<>>
    ELSE LET cut == IF \E i \in 1..Len(p) : CharAt(p, i) = "/"
                    THEN CHOOSE i \in 1..Len(p) :
                            /\ CharAt(p, i) = "/"
                            /\ \A j \in 1..(i - 1) : CharAt(p, j) # "/"
                    ELSE Len(p) + 1
         IN <<SubSeq(p, 1, cut - 1)>> \o Segments(SubSeq(p, cut + 1, Len(p)))

\* path normalisation: "" and "." segments vanish, ".." removes the segment before it
RECURSIVE NormSegments(_, _)
NormSegments(segs, acc) ==
    IF segs = <<>> THEN acc
    ELSE LET s == Head(segs)
         IN IF s = "" \/ s = "." THEN NormSegments(Tail(segs), acc)
            ELSE IF s = ".."
                 THEN NormSegments(Tail(segs),
                                   IF acc = <<>> THEN acc ELSE SubSeq(acc, 1, Len(acc) - 1))
                 ELSE NormSegments(Tail(segs), Append(acc, s))

RECURSIVE JoinSegments(_)
JoinSegments(segs) ==
    IF segs = <<>> THEN "" ELSE "/" \o Head(segs) \o JoinSegments(Tail(segs))

\* an absolute path, normalised
NormalizeAbs(p) ==
    LET segs == NormSegments(Segments(p), <<>>)
    IN IF segs = <<>> THEN "/" ELSE JoinSegments(segs)

\* path.resolve(from, to) for an absolute from
PathResolve(from, to) ==
    IF StartsWith(to, "/") THEN NormalizeAbs(to) ELSE NormalizeAbs(from \o "/" \o to)

\* path.join(a, b) for a non-empty a
PathJoin(a, b) ==
    IF StartsWith(a, "/")
    THEN NormalizeAbs(a \o "/" \o b)
    ELSE SubSeq(NormalizeAbs("/" \o a \o "/" \o b), 2, Len(NormalizeAbs("/" \o a \o "/" \o b)))

\* path.dirname of an absolute path
PathDirname(p) ==
    LET i == LastIndexOf(p, "/")
    IN IF i <= 1 THEN "/" ELSE SubSeq(p, 1, i - 1)

\* path.basename
PathBasename(p) == SubSeq(p, LastIndexOf(p, "/") + 1, Len(p))

\* path.extname: from the last "." of the basename, "" when there is none
\* or when it is the basename's first character
PathExtname(p) ==
    LET b == PathBasename(p)
        i == LastIndexOf(b, ".")
    IN IF i <= 1 THEN "" ELSE SubSeq(b, i, Len(b))

(***************************************************************************)
(* JavaScript Map and Set: both iterate in insertion order.  A Map is the  *)
(* sequence of its <<key, value>> entries, a Set the sequence of its       *)
(* members without repetition.                                             *)
(***************************************************************************)
MapHas(m, k) == \E i \in 1..Len(m) : m[i][1] = k

MapKeys(m) == [i \in 1..Len(m) |-> m[i][1]]

\* m.get(k) || 0 : a missing key and the value 0 both give 0
MapGetOr0(m, k) ==
    IF MapHas(m, k) THEN m[CHOOSE i \in 1..Len(m) : m[i][1] = k][2] ELSE 0

\* m.get(k) of a key known to be present
MapGet(m, k) == m[CHOOSE i \in 1..Len(m) : m[i][1] = k][2]

\* m.set(k, v): a present key keeps its position
MapSet(m, k, v) ==
    IF MapHas(m, k)
    THEN [i \in 1..Len(m) |-> IF m[i][1] = k THEN <<k, v>> ELSE m[i]]
    ELSE Append(m, <<k, v>>)

SeqIncludes(s, x) == \E i \in 1..Len(s) : s[i] = x

SetAdd(s, x) == IF SeqIncludes(s, x) THEN s ELSE Append(s, x)

Min(a, b) == IF a <= b THEN a ELSE b

\* Array.prototype.slice(0, k)
SliceFirst(s, k) == SubSeq(s, 1, Min(Len(s), k))

(***************************************************************************)
(* makeId, extension.ts lines 49-51.                                       *)
(***************************************************************************)
\* s.replace(/[^a-zA-Z0-9_]/g, '_')
RECURSIVE ReplaceNonIdChars(_)
ReplaceNonIdChars(s) ==
    IF s = "" THEN ""
    ELSE (IF CharAt(s, 1) \in IdChars THEN CharAt(s, 1) ELSE "_")
            \o ReplaceNonIdChars(SubSeq(s, 2, Len(s)))

\* .replace(/^_+/, '')
RECURSIVE StripLeadingUnderscores(_)
StripLeadingUnderscores(s) ==
    IF s # "" /\ CharAt(s, 1) = "_"
    THEN StripLeadingUnderscores(SubSeq(s, 2, Len(s)))
    ELSE s

\* makeId without the first replacement
makeIdKeepingChars(s) == StripLeadingUnderscores(s)

makeId(s) == StripLeadingUnderscores(ReplaceNonIdChars(s))

(***************************************************************************)
(* extractImportsAndSymbols, extension.ts lines 53-81: four scans of the   *)
(* whole content, one regular expression each, every scan from the start.  *)
(***************************************************************************)
Token(k, v) == [k |-> k, v |-> v]

\* the captures of one global scan: the statements of the kinds the
\* expression matches, in text order
RECURSIVE ScanCaptures(_, _)
ScanCaptures(content, kinds) ==
    IF content = <<>> THEN <<>>
    ELSE (IF Head(content).k \in kinds THEN <<Head(content).v>> ELSE <<>>)
            \o ScanCaptures(Tail(content), kinds)

extractImportsAndSymbols(content) ==
    [imports   |-> ScanCaptures(content, {"import"}) \o ScanCaptures(content, {"require"}),
     functions |-> ScanCaptures(content, {"function", "arrow"}),
     classes   |-> ScanCaptures(content, {"class"})]

(***************************************************************************)
(* State.                                                                  *)
(*   pc            position in convertFolderToFlowchart                   *)
(*   files         the FileInfo records: the collector's result and the    *)
(*                 diagram builder's argument                              *)
(*   nodes         one record per file: the file and what was extracted    *)
(*   mermaidCode   the diagram text, as its lines                          *)
(*   incoming, outgoing, adjacency, inDegreeMap   the Maps of the builder  *)
(*   q, topoOrder  the queue and the result of the ordering loop           *)
(*   tree, scan, pending   the collector: the directory tree it walks, its *)
(*                 position, and the processEntry calls still to make      *)
(*   command, step, effects, disk, attempts   the operation in progress    *)
(*                 (a command of the extension or a script), its position, *)
(*                 what it has shown, started and ended with so far, the   *)
(*                 files it exchanges with the renderer, and the renderer  *)
(*                 strategies it has tried                                 *)
(*   suspended     the second invocation of the command, which waits at an *)
(*                 await while the first one runs                          *)
(***************************************************************************)
VARIABLES pc, files, nodes, mermaidCode, incoming, outgoing, adjacency,
          inDegreeMap, q, topoOrder, tree, scan, pending,
          command, step, effects, disk, attempts, suspended

vars == <<pc, files, nodes, mermaidCode, incoming, outgoing, adjacency,
          inDegreeMap, q, topoOrder, tree, scan, pending,
          command, step, effects, disk, attempts, suspended>>

commandVars == <<command, step, effects, disk, attempts, suspended>>

\* a file of the scanned folder: whether it exists, and its content
AbsentFile == [exists |-> FALSE, content |-> ""]
File(content) == [exists |-> TRUE, content |-> content]

\* the file system apart from the tree: the files an export reads and writes
\* (wholeflow.mmd, wholeflow_raw.mmd, mmdc-temp-config.json, wholeflow.svg),
\* the binary node_modules/.bin/mmdc, and the paths on which stat throws
NoDisk == [mmd |-> AbsentFile, raw |-> AbsentFile, config |-> FALSE, svg |-> FALSE,
           localBin |-> FALSE, unstatable |-> {}]

\* the command was invoked once: no second invocation waits
NoInvocation == [step |-> "none"]

\* no command is running: the function under study was called on its own
NoCommand ==
    /\ suspended = NoInvocation
    /\ command = "none"
    /\ step = "idle"
    /\ effects = <<>>
    /\ attempts = <<>>

(***************************************************************************)
(* The file system the resolver probes: the regular files on disk below    *)
(* the scanned folder /w/p.  d.x is a regular file the collector does not  *)
(* return (its extension is not a text extension); a_ts has no extension   *)
(* and its name gives the identifier of a.ts; g.js to e/index.tsx are the  *)
(* files the candidates of the resolver can hit, one for each place in the *)
(* list, with n present as n.ts and as n.js.  disk.unstatable holds the    *)
(* paths that exist and on which fs.statSync throws (an entry removed      *)
(* between the two calls, an I/O error).                                   *)
(***************************************************************************)
RootPath == "/w/p"

DiskFiles ==
    {"/w/p/a.ts", "/w/p/b.ts", "/w/p/c.ts", "/w/p/a_ts", "/w/p/d.x",
     "/w/p/g.js", "/w/p/h.tsx", "/w/p/k.jsx", "/w/p/n.ts", "/w/p/n.js",
     "/w/p/f/index.ts", "/w/p/m/index.js", "/w/p/e/index.tsx"}

\* fs.existsSync(c) && fs.statSync(c).isFile(), when statSync returns
IsRegularFile(c) == c \in DiskFiles

\* fs.existsSync(c) is true and fs.statSync(c) throws
StatThrows(c) == c \in disk.unstatable

\* JavaScript null (and every falsy result) of resolveImport
Null == ""

(***************************************************************************)
(* resolveImport, extension.ts lines 83-96.                                *)
(***************************************************************************)
Candidates(base) ==
    <<base, base \o ".ts", base \o ".js", base \o ".tsx", base \o ".jsx",
      PathJoin(base, "index.ts"), PathJoin(base, "index.js")>>

\* the loop of lines 87-93: the catch clause swallows what a probe throws
RECURSIVE FirstRegularFile(_)
FirstRegularFile(cands) ==
    IF cands = <<>> THEN Null
    ELSE IF ~StatThrows(Head(cands)) /\ IsRegularFile(Head(cands))
         THEN PathResolve("/", Head(cands))
         ELSE FirstRegularFile(Tail(cands))

resolveImport(fromFile, imp) ==
    IF StartsWith(imp, ".") \/ StartsWith(imp, "/")
    THEN FirstRegularFile(Candidates(PathResolve(PathDirname(fromFile), imp)))
    ELSE Null

convertVars == <<pc, nodes, mermaidCode, incoming, outgoing, adjacency,
                 inDegreeMap, q, topoOrder>>

collectVars == <<tree, scan, pending>>

(***************************************************************************)
(* Lines of the diagram text.                                              *)
(***************************************************************************)
Line(t, a, b, l, n) == [t |-> t, a |-> a, b |-> b, l |-> l, n |-> n]

\* the cap of .slice(0, 8) on the function and on the class nodes of a file
MaxFnNodes == 8
MaxClassNodes == 8
MAX_PIPE_NODES == 200

startId == "StartNode"
endId == "EndNode"

(***************************************************************************)
(* convertFolderToFlowchart, lines 98-128: extraction and the file blocks. *)
(***************************************************************************)
ExtractNode(f) ==
    LET r == extractImportsAndSymbols(f.content)
    IN [file |-> f, imports |-> r.imports, functions |-> r.functions, classes |-> r.classes]

\* byResolvedPath, lines 104-107
RECURSIVE byResolvedPathOf(_, _)
byResolvedPathOf(ns, m) ==
    IF ns = <<>> THEN m
    ELSE byResolvedPathOf(Tail(ns), MapSet(m, PathResolve("/", Head(ns).file.path), Head(ns)))

FnLines(n, fns) ==
    [i \in 1..Len(fns) |-> Line("fn", makeId(n.file.name \o "_" \o fns[i]), "", fns[i], 0)]

ClassLines(n, cs) ==
    [i \in 1..Len(cs) |-> Line("class", makeId(n.file.name \o "_" \o cs[i]), "", cs[i], 0)]

\* lines 113-127: the block of one file
SubgraphLinesNoCap(n) ==
    <<Line("subgraph", makeId(n.file.name), "", n.file.name, 0)>>
    \o FnLines(n, n.functions)
    \o ClassLines(n, n.classes)
    \o (IF Len(n.functions) = 0 /\ Len(n.classes) = 0
        THEN <<Line("fallback", makeId(n.file.name) \o "_file", "",
                    PathBasename(n.file.name), n.file.lineCount)>>
        ELSE <<>>)
    \o <<Line("end", "", "", "", 0)>>

SubgraphLinesNoFallback(n) ==
    <<Line("subgraph", makeId(n.file.name), "", n.file.name, 0)>>
    \o FnLines(n, SliceFirst(n.functions, MaxFnNodes))
    \o ClassLines(n, SliceFirst(n.classes, MaxClassNodes))
    \o <<Line("end", "", "", "", 0)>>

SubgraphLines(n) ==
    <<Line("subgraph", makeId(n.file.name), "", n.file.name, 0)>>
    \o FnLines(n, SliceFirst(n.functions, MaxFnNodes))
    \o ClassLines(n, SliceFirst(n.classes, MaxClassNodes))
    \o (IF Len(n.functions) = 0 /\ Len(n.classes) = 0
        THEN <<Line("fallback", makeId(n.file.name) \o "_file", "",
                    PathBasename(n.file.name), n.file.lineCount)>>
        ELSE <<>>)
    \o <<Line("end", "", "", "", 0)>>

\* lines 108-128 with one block per identifier: a file whose identifier an
\* earlier file has gets no block
RECURSIVE AllSubgraphLinesOncePerId(_)
AllSubgraphLinesOncePerId(ns) ==
    IF ns = <<>> THEN <<>>
    ELSE AllSubgraphLinesOncePerId(SubSeq(ns, 1, Len(ns) - 1))
            \o (IF \E i \in 1..(Len(ns) - 1) :
                        makeId(ns[i].file.name) = makeId(ns[Len(ns)].file.name)
                THEN <<>> ELSE SubgraphLines(ns[Len(ns)]))

RECURSIVE AllSubgraphLines(_)
AllSubgraphLines(ns) ==
    IF ns = <<>> THEN <<>> ELSE SubgraphLines(Head(ns)) \o AllSubgraphLines(Tail(ns))

(***************************************************************************)
(* Lines 130-165: the counters, the adjacency and the import edges.  The   *)
(* builder's state is the record g of the text and the three Maps.         *)
(***************************************************************************)
\* lines 134-138
RECURSIVE InitCounters(_, _)
InitCounters(ns, g) ==
    IF ns = <<>> THEN g
    ELSE LET fromId == makeId(Head(ns).file.name)
         IN InitCounters(Tail(ns),
                [g EXCEPT !.outgoing = MapSet(g.outgoing, fromId, 0),
                          !.incoming = MapSet(g.incoming, fromId, MapGetOr0(g.incoming, fromId))])

\* lines 150-154 drawing an edge only the first time
FileEdgeOnce(g, fromId, toId) ==
    [g EXCEPT !.out = IF SeqIncludes(MapGet(g.adjacency, fromId), toId) THEN g.out
                      ELSE Append(g.out, Line("edge", fromId, toId, "", 0)),
              !.adjacency = MapSet(g.adjacency, fromId, SetAdd(MapGet(g.adjacency, fromId), toId)),
              !.outgoing = MapSet(g.outgoing, fromId, MapGetOr0(g.outgoing, fromId) + 1),
              !.incoming = MapSet(g.incoming, toId, MapGetOr0(g.incoming, toId) + 1)]

\* lines 150-154
FileEdge(g, fromId, toId) ==
    [g EXCEPT !.out = Append(g.out, Line("edge", fromId, toId, "", 0)),
              !.adjacency = MapSet(g.adjacency, fromId, SetAdd(MapGet(g.adjacency, fromId), toId)),
              !.outgoing = MapSet(g.outgoing, fromId, MapGetOr0(g.outgoing, fromId) + 1),
              !.incoming = MapSet(g.incoming, toId, MapGetOr0(g.incoming, toId) + 1)]

\* lines 158-161 with the external node counted as an import target
ExternalEdgeCounted(g, fromId, imp) ==
    LET extId == makeId("ext_" \o imp)
    IN [g EXCEPT !.out = Append(g.out, Line("extedge", fromId, extId, imp, 0)),
                 !.adjacency = MapSet(g.adjacency, fromId, SetAdd(MapGet(g.adjacency, fromId), extId)),
                 !.outgoing = MapSet(g.outgoing, fromId, MapGetOr0(g.outgoing, fromId) + 1),
                 !.incoming = MapSet(g.incoming, extId, MapGetOr0(g.incoming, extId) + 1)]

\* lines 158-161
ExternalEdge(g, fromId, imp) ==
    LET extId == makeId("ext_" \o imp)
    IN [g EXCEPT !.out = Append(g.out, Line("extedge", fromId, extId, imp, 0)),
                 !.adjacency = MapSet(g.adjacency, fromId, SetAdd(MapGet(g.adjacency, fromId), extId)),
                 !.outgoing = MapSet(g.outgoing, fromId, MapGetOr0(g.outgoing, fromId) + 1)]

\* lines 146-163 with an external edge for every unresolved import
ImportStepAllExternal(g, byResolvedPath, n, imp) ==
    LET fromId == makeId(n.file.name)
        resolved == resolveImport(n.file.path, imp)
    IN IF resolved # Null
       THEN IF MapHas(byResolvedPath, PathResolve("/", resolved))
            THEN FileEdge(g, fromId, makeId(MapGet(byResolvedPath, PathResolve("/", resolved)).file.name))
            ELSE g
       ELSE ExternalEdge(g, fromId, imp)

\* lines 146-163: one import of the file of node n
ImportStep(g, byResolvedPath, n, imp) ==
    LET fromId == makeId(n.file.name)
        resolved == resolveImport(n.file.path, imp)
    IN IF resolved # Null
       THEN IF MapHas(byResolvedPath, PathResolve("/", resolved))
            THEN FileEdge(g, fromId, makeId(MapGet(byResolvedPath, PathResolve("/", resolved)).file.name))
            ELSE g
       ELSE IF ~StartsWith(imp, ".")
            THEN ExternalEdge(g, fromId, imp)
            ELSE g

RECURSIVE ImportLoop(_, _, _, _)
ImportLoop(g, byResolvedPath, n, imps) ==
    IF imps = <<>> THEN g
    ELSE ImportLoop(ImportStep(g, byResolvedPath, n, Head(imps)), byResolvedPath, n, Tail(imps))

\* lines 142-165
RECURSIVE NodeLoop(_, _, _)
NodeLoop(g, byResolvedPath, ns) ==
    IF ns = <<>> THEN g
    ELSE LET fromId == makeId(Head(ns).file.name)
             g1 == IF MapHas(g.adjacency, fromId) THEN g
                   ELSE [g EXCEPT !.adjacency = MapSet(g.adjacency, fromId, <<>>)]
         IN NodeLoop(ImportLoop(g1, byResolvedPath, Head(ns), Head(ns).imports),
                     byResolvedPath, Tail(ns))

\* the builder with its three Maps kept from one call to the next
BuildGraphOnOldMaps ==
    /\ pc = "start"
    /\ LET ns == [i \in 1..Len(files) |-> ExtractNode(files[i])]
           g0 == [out |-> <<Line("header", "", "", "flowchart TD", 0)>> \o AllSubgraphLines(ns),
                  adjacency |-> adjacency, outgoing |-> outgoing, incoming |-> incoming]
           g == NodeLoop(g0, byResolvedPathOf(ns, <<>>), ns)
       IN /\ nodes' = ns
          /\ mermaidCode' = g.out
          /\ incoming' = g.incoming
          /\ outgoing' = g.outgoing
          /\ adjacency' = g.adjacency
    /\ pc' = "built"
    /\ UNCHANGED <<files, inDegreeMap, q, topoOrder, collectVars, commandVars>>

BuildGraph ==
    /\ pc = "start"
    /\ LET ns == [i \in 1..Len(files) |-> ExtractNode(files[i])]
           g0 == [out |-> <<Line("header", "", "", "flowchart TD", 0)>> \o AllSubgraphLines(ns),
                  adjacency |-> <<>>, outgoing |-> <<>>, incoming |-> <<>>]
           g == NodeLoop(InitCounters(ns, g0), byResolvedPathOf(ns, <<>>), ns)
       IN /\ nodes' = ns
          /\ mermaidCode' = g.out
          /\ incoming' = g.incoming
          /\ outgoing' = g.outgoing
          /\ adjacency' = g.adjacency
    /\ pc' = "built"
    /\ UNCHANGED <<files, inDegreeMap, q, topoOrder, collectVars, commandVars>>

(***************************************************************************)
(* Lines 167-176: the in-degree Map and the initial queue.                 *)
(***************************************************************************)
\* line 169
RECURSIVE CopyCounters(_, _)
CopyCounters(entries, m) ==
    IF entries = <<>> THEN m
    ELSE CopyCounters(Tail(entries), MapSet(m, Head(entries)[1], Head(entries)[2]))

\* line 171 over the successors of the adjacency as well as its keys
RECURSIVE EnsureSuccessorsPresent(_, _)
EnsureSuccessorsPresent(ids, m) ==
    IF ids = <<>> THEN m
    ELSE LET withKey == IF MapHas(m, Head(ids)) THEN m ELSE MapSet(m, Head(ids), 0)
             succ == IF MapHas(adjacency, Head(ids)) THEN MapGet(adjacency, Head(ids)) ELSE <<>>
             new == SelectSeq(succ, LAMBDA x : ~MapHas(withKey, x) /\ ~SeqIncludes(ids, x))
         IN EnsureSuccessorsPresent(Tail(ids) \o new, withKey)

\* line 171
RECURSIVE EnsurePresent(_, _)
EnsurePresent(ids, m) ==
    IF ids = <<>> THEN m
    ELSE EnsurePresent(Tail(ids), IF MapHas(m, Head(ids)) THEN m ELSE MapSet(m, Head(ids), 0))

\* lines 173-176
RECURSIVE ZeroDegreeIds(_)
ZeroDegreeIds(entries) ==
    IF entries = <<>> THEN <<>>
    ELSE (IF Head(entries)[2] = 0 /\ Head(entries)[1] # "" THEN <<Head(entries)[1]>> ELSE <<>>)
            \o ZeroDegreeIds(Tail(entries))

KahnSeed ==
    /\ pc = "built"
    /\ LET m == EnsurePresent(MapKeys(adjacency), CopyCounters(incoming, <<>>))
       IN /\ inDegreeMap' = m
          /\ q' = ZeroDegreeIds(m)
    /\ topoOrder' = <<>>
    /\ pc' = "kahn"
    /\ UNCHANGED <<files, nodes, mermaidCode, incoming, outgoing, adjacency, collectVars, commandVars>>

(***************************************************************************)
(* Lines 179-189: one iteration of the ordering loop.  The loop's state is *)
(* the record k of the in-degree Map and the queue.                        *)
(***************************************************************************)
\* lines 185-187 with the test curDeg - 1 <= 0
VisitNeighbourAtMostZero(k, nb) ==
    LET curDeg == MapGetOr0(k.inDegreeMap, nb)
    IN [inDegreeMap |-> MapSet(k.inDegreeMap, nb, curDeg - 1),
        q |-> IF curDeg - 1 <= 0 THEN Append(k.q, nb) ELSE k.q]

\* lines 185-187
VisitNeighbour(k, nb) ==
    LET curDeg == MapGetOr0(k.inDegreeMap, nb)
    IN [inDegreeMap |-> MapSet(k.inDegreeMap, nb, curDeg - 1),
        q |-> IF curDeg - 1 = 0 THEN Append(k.q, nb) ELSE k.q]

RECURSIVE NeighbourLoop(_, _)
NeighbourLoop(k, neigh) ==
    IF neigh = <<>> THEN k
    ELSE NeighbourLoop(VisitNeighbour(k, Head(neigh)), Tail(neigh))

KahnStep ==
    /\ pc = "kahn"
    /\ q # <<>>
    /\ LET cur == Head(q)
           k0 == [inDegreeMap |-> inDegreeMap, q |-> Tail(q)]
           k == IF MapHas(adjacency, cur) THEN NeighbourLoop(k0, MapGet(adjacency, cur)) ELSE k0
       IN /\ topoOrder' = Append(topoOrder, cur)
          /\ inDegreeMap' = k.inDegreeMap
          /\ q' = k.q
    /\ UNCHANGED <<pc, files, nodes, mermaidCode, incoming, outgoing, adjacency, collectVars, commandVars>>

(***************************************************************************)
(* Lines 191-197: the files the loop did not reach.                        *)
(***************************************************************************)
RECURSIVE AppendMissing(_, _)
AppendMissing(order, ns) ==
    IF ns = <<>> THEN order
    ELSE AppendMissing(IF SeqIncludes(order, makeId(Head(ns).file.name)) THEN order
                       ELSE Append(order, makeId(Head(ns).file.name)),
                       Tail(ns))

\* lines 192-197 without the fallback
CompleteOrderNoFallback(order, ns) == order

\* lines 192-197 appending the missing files last-collected first
RECURSIVE AppendMissingReversed(_, _)
AppendMissingReversed(order, ns) ==
    IF ns = <<>> THEN order
    ELSE AppendMissingReversed(
            IF SeqIncludes(order, makeId(ns[Len(ns)].file.name)) THEN order
            ELSE Append(order, makeId(ns[Len(ns)].file.name)),
            SubSeq(ns, 1, Len(ns) - 1))

CompleteOrderReversed(order, ns) ==
    IF Len(order) < Len(ns) THEN AppendMissingReversed(order, ns) ELSE order

\* lines 192-197
CompleteOrder(order, ns) ==
    IF Len(order) < Len(ns) THEN AppendMissing(order, ns) ELSE order

AppendRemaining ==
    /\ pc = "kahn"
    /\ q = <<>>
    /\ topoOrder' = CompleteOrder(topoOrder, nodes)
    /\ pc' = "ordered"
    /\ UNCHANGED <<files, nodes, mermaidCode, incoming, outgoing, adjacency, inDegreeMap, q,
                   collectVars, commandVars>>

(***************************************************************************)
(* Lines 199-228: the dashed backbone and the Start and End anchors.       *)
(***************************************************************************)
\* lines 201-204
\* the dashed chain drawn over the whole order
PipelineLinesUncut(order) ==
    [i \in 1..(IF Len(order) = 0 THEN 0 ELSE Len(order) - 1) |->
        Line("dashed", order[i], order[i + 1], "", 0)]

PipelineLines(order) ==
    LET pipelineNodes == SubSeq(order, 1, Min(Len(order), MAX_PIPE_NODES))
    IN [i \in 1..(IF Len(pipelineNodes) = 0 THEN 0 ELSE Len(pipelineNodes) - 1) |->
            Line("dashed", pipelineNodes[i], pipelineNodes[i + 1], "", 0)]

\* lines 213-218 testing the outgoing counter
RECURSIVE EntryLinesByOutgoing(_, _, _)
EntryLinesByOutgoing(ns, inc, outg) ==
    IF ns = <<>> THEN <<>>
    ELSE (IF MapGetOr0(outg, makeId(Head(ns).file.name)) = 0
          THEN <<Line("edge", startId, makeId(Head(ns).file.name), "", 0)>> ELSE <<>>)
            \o EntryLinesByOutgoing(Tail(ns), inc, outg)

\* lines 213-218: !incoming.get(id) || incoming.get(id) === 0
RECURSIVE EntryLines(_, _, _)
EntryLines(ns, inc, outg) ==
    IF ns = <<>> THEN <<>>
    ELSE (IF MapGetOr0(inc, makeId(Head(ns).file.name)) = 0
          THEN <<Line("edge", startId, makeId(Head(ns).file.name), "", 0)>> ELSE <<>>)
            \o EntryLines(Tail(ns), inc, outg)

\* lines 221-226
RECURSIVE LeafLines(_, _)
LeafLines(ns, outg) ==
    IF ns = <<>> THEN <<>>
    ELSE (IF MapGetOr0(outg, makeId(Head(ns).file.name)) = 0
          THEN <<Line("edge", makeId(Head(ns).file.name), endId, "", 0)>> ELSE <<>>)
            \o LeafLines(Tail(ns), outg)

RenderBackbone ==
    /\ pc = "ordered"
    /\ mermaidCode' = mermaidCode
            \o PipelineLines(topoOrder)
            \o <<Line("anchor", startId, "", "Start", 0), Line("anchor", endId, "", "End", 0)>>
            \o EntryLines(nodes, incoming, outgoing)
            \o LeafLines(nodes, outgoing)
    /\ pc' = "done"
    /\ UNCHANGED <<files, nodes, incoming, outgoing, adjacency, inDegreeMap, q, topoOrder,
                   collectVars, commandVars>>

(***************************************************************************)
(* shouldIgnorePath and getFileExtension, extension.ts lines 234-261.      *)
(***************************************************************************)
ignorePatterns ==
    <<"node_modules", ".git", ".vscode", "out", "dist", "build", ".next", ".cache",
      "coverage", ".DS_Store", "package-lock.json", "yarn.lock", ".env", ".env.local">>

\* the test for a path segment that is a pattern, not one that contains it
shouldIgnoreSegment(filePath) ==
    \E i \in 1..Len(ignorePatterns) : \E j \in 1..Len(Segments(filePath)) :
        Segments(filePath)[j] = ignorePatterns[i]

\* the test applied to the last path segment only
shouldIgnoreBasename(filePath) ==
    \E i \in 1..Len(ignorePatterns) : Includes(PathBasename(filePath), ignorePatterns[i])

shouldIgnorePath(filePath) ==
    \E i \in 1..Len(ignorePatterns) : Includes(filePath, ignorePatterns[i])

getFileExtension(fileName) ==
    LET ext == toLowerCase(PathExtname(fileName))
    IN IF ext = "" THEN "no-ext" ELSE ext

\* line 287
textExtensions ==
    {".js", ".ts", ".jsx", ".tsx", ".py", ".java", ".cpp", ".c", ".cs", ".go", ".rs", ".php",
     ".rb", ".swift", ".kt", ".html", ".css", ".json", ".xml", ".yaml", ".yml", ".md", ".txt"}

(***************************************************************************)
(* The directory trees the collector walks.  A tree is a root path and a   *)
(* function from the paths below (and including) the root to entries       *)
(* [kind, entries]: kind is "dir", "file" (a readable regular file),       *)
(* "unreadable" (a regular file readFile fails on), "other" (neither a     *)
(* directory nor a regular file) or "staterr" (stat fails: a dangling      *)
(* link, a vanished entry); entries is what readdir returns, in order.     *)
(* A tree is drawn as a plan: its entries in breadth-first order, each a   *)
(* record [parent, name, kind], parent 0 being the root.                   *)
(***************************************************************************)
Roots == {"/w/p", "/scout/p"}

EntryNames == {"a.ts", "B.TS", "x.bin", "doc", "out", "layout.ts"}

\* the kinds an entry of a given name takes in the trees drawn
KindsOf(name) ==
    IF name = "out" THEN {"dir"}
    ELSE IF name = "doc" THEN {"dir", "file", "staterr", "other"}
    ELSE IF name = "a.ts" THEN {"file", "unreadable"}
    ELSE {"file"}

Faults(plan) == Cardinality({j \in 1..Len(plan) : plan[j].kind \in {"unreadable", "staterr"}})

\* the entries that can follow a plan: under the root or an earlier directory
\* not before the parent of the last entry, with a name its siblings do not have
PlanExtensions(plan) ==
    {e \in [parent : 0..Len(plan), name : EntryNames,
            kind : {"dir", "file", "unreadable", "staterr", "other"}] :
        /\ e.kind \in KindsOf(e.name)
        /\ e.parent # 0 => plan[e.parent].kind = "dir"
        /\ plan # <<>> => plan[Len(plan)].parent <= e.parent
        /\ \A j \in 1..Len(plan) : plan[j].parent = e.parent => plan[j].name # e.name
        /\ Faults(plan) + (IF e.kind \in {"unreadable", "staterr"} THEN 1 ELSE 0) <= MaxFaults}

\* the plans of exactly k entries
RECURSIVE PlansOfSize(_)
PlansOfSize(k) ==
    IF k = 0 THEN {<<>>}
    ELSE UNION {{Append(plan, e) : e \in PlanExtensions(plan)} : plan \in PlansOfSize(k - 1)}

Plans == UNION {PlansOfSize(k) : k \in 0..MaxEntries}

RECURSIVE PlanPath(_, _, _)
PlanPath(root, plan, j) ==
    IF j = 0 THEN root ELSE PathJoin(PlanPath(root, plan, plan[j].parent), plan[j].name)

\* the names of the entries of plan under entry j, in order
RECURSIVE PlanChildren(_, _, _)
PlanChildren(plan, j, from) ==
    IF from > Len(plan) THEN <<>>
    ELSE (IF plan[from].parent = j THEN <<plan[from].name>> ELSE <<>>)
            \o PlanChildren(plan, j, from + 1)

TreeOf(root, plan) ==
    [root |-> root,
     node |-> [p \in {PlanPath(root, plan, j) : j \in 0..Len(plan)} |->
                 LET j == CHOOSE j \in 0..Len(plan) : PlanPath(root, plan, j) = p
                 IN [kind |-> IF j = 0 THEN "dir" ELSE plan[j].kind,
                     entries |-> PlanChildren(plan, j, 1)]]]

\* no tree: the collector is not running
NoTree == [root |-> "", node |-> <<>>]

(***************************************************************************)
(* readFolderRecursive, extension.ts lines 266-310.  processEntry awaits   *)
(* each recursive call in turn, so the calls still to make form a stack:   *)
(* pending, each call a pair <<entryPath, relativePath>>.  One action is   *)
(* one call of processEntry up to its recursive calls.                     *)
(***************************************************************************)
Call(entryPath, relativePath) == <<entryPath, relativePath>>

entryPath == pending[1][1]
relativePath == pending[1][2]

Walking == scan = "walking" /\ pending # <<>>

\* lines 273-275
SkipIgnored ==
    /\ Walking
    /\ shouldIgnorePath(entryPath)
    /\ pending' = Tail(pending)
    /\ UNCHANGED <<files, tree, scan, convertVars, commandVars>>

\* line 277: stat rejects, no handler on the way up: the scan rejects
StatFails ==
    /\ Walking
    /\ ~shouldIgnorePath(entryPath)
    /\ tree.node[entryPath].kind = "staterr"
    /\ scan' = "rejected"
    /\ pending' = <<>>
    /\ UNCHANGED <<files, tree, convertVars, commandVars>>

\* lines 279-283
ReadDirectory ==
    /\ Walking
    /\ ~shouldIgnorePath(entryPath)
    /\ tree.node[entryPath].kind = "dir"
    /\ LET entries == tree.node[entryPath].entries
       IN pending' = [i \in 1..Len(entries) |->
                        Call(PathJoin(entryPath, entries[i]), PathJoin(relativePath, entries[i]))]
                     \o Tail(pending)
    /\ UNCHANGED <<files, tree, scan, convertVars, commandVars>>

\* lines 284-299
CollectFile ==
    /\ Walking
    /\ ~shouldIgnorePath(entryPath)
    /\ tree.node[entryPath].kind = "file"
    /\ getFileExtension(entryPath) \in textExtensions \cup {"no-ext"}
    /\ files' = Append(files, [path |-> entryPath, name |-> relativePath,
                               content |-> <<>>, lineCount |-> 1])
    /\ pending' = Tail(pending)
    /\ UNCHANGED <<tree, scan, convertVars, commandVars>>

\* readFile rejects and nothing catches it: the scan rejects
SkipUnreadableAborting ==
    /\ Walking
    /\ ~shouldIgnorePath(entryPath)
    /\ tree.node[entryPath].kind = "unreadable"
    /\ getFileExtension(entryPath) \in textExtensions \cup {"no-ext"}
    /\ scan' = "rejected"
    /\ pending' = <<>>
    /\ UNCHANGED <<files, tree, convertVars, commandVars>>

\* lines 290-303: readFile rejects, the file is skipped with a warning
SkipUnreadable ==
    /\ Walking
    /\ ~shouldIgnorePath(entryPath)
    /\ tree.node[entryPath].kind = "unreadable"
    /\ getFileExtension(entryPath) \in textExtensions \cup {"no-ext"}
    /\ pending' = Tail(pending)
    /\ UNCHANGED <<files, tree, scan, convertVars, commandVars>>

\* line 289: not a text extension
SkipExtension ==
    /\ Walking
    /\ ~shouldIgnorePath(entryPath)
    /\ tree.node[entryPath].kind \in {"file", "unreadable"}
    /\ getFileExtension(entryPath) \notin textExtensions \cup {"no-ext"}
    /\ pending' = Tail(pending)
    /\ UNCHANGED <<files, tree, scan, convertVars, commandVars>>

\* lines 279-284: neither a directory nor a regular file
SkipOther ==
    /\ Walking
    /\ ~shouldIgnorePath(entryPath)
    /\ tree.node[entryPath].kind = "other"
    /\ pending' = Tail(pending)
    /\ UNCHANGED <<files, tree, scan, convertVars, commandVars>>

\* lines 308-309
ReturnFiles ==
    /\ scan = "walking"
    /\ pending = <<>>
    /\ scan' = "returned"
    /\ UNCHANGED <<files, tree, pending, convertVars, commandVars>>

InitCollect ==
    /\ \E root \in Roots : \E plan \in Plans :
          /\ tree = TreeOf(root, plan)
          /\ pending = <<Call(root, PathBasename(root))>>
    /\ scan = "walking"
    /\ NoCommand
    /\ disk = NoDisk
    /\ files = <<>>
    /\ pc = "idle"
    /\ nodes = <<>>
    /\ mermaidCode = <<>>
    /\ incoming = <<>>
    /\ outgoing = <<>>
    /\ adjacency = <<>>
    /\ inDegreeMap = <<>>
    /\ q = <<>>
    /\ topoOrder = <<>>

NextCollect ==
    \/ SkipIgnored
    \/ StatFails
    \/ ReadDirectory
    \/ CollectFile
    \/ SkipUnreadable
    \/ SkipExtension
    \/ SkipOther
    \/ ReturnFiles

SpecCollect == InitCollect /\ [][NextCollect]_vars

(***************************************************************************)
(* The intermediate file wholeflow.mmd: the diagram text between a mermaid *)
(* fence.  A TLA+ string cannot hold a backtick, so the character ^ stands *)
(* for it throughout: the fence is ^^^.                                    *)
(***************************************************************************)
Tick == "^"
Fence == Tick \o Tick \o Tick

\* the class \s of the regular expressions, on the characters the contents use
IsSpace(c) == c \in {" ", "\t", "\n", "\r"}

\* String.prototype.trim
RECURSIVE trimStart(_)
trimStart(s) ==
    IF s # "" /\ IsSpace(CharAt(s, 1)) THEN trimStart(SubSeq(s, 2, Len(s))) ELSE s

RECURSIVE trimEnd(_)
trimEnd(s) ==
    IF s # "" /\ IsSpace(CharAt(s, Len(s))) THEN trimEnd(SubSeq(s, 1, Len(s) - 1)) ELSE s

trim(s) == trimEnd(trimStart(s))

OccursAt(s, p, i) == i >= 1 /\ i + Len(p) - 1 <= Len(s) /\ SubSeq(s, i, i + Len(p) - 1) = p

\* index of the first occurrence of p in s at or after from, 0 if none
IndexOfFrom(s, p, from) ==
    IF \E i \in from..Len(s) : OccursAt(s, p, i)
    THEN CHOOSE i \in from..Len(s) :
            OccursAt(s, p, i) /\ \A j \in from..(i - 1) : ~OccursAt(s, p, j)
    ELSE 0

\* s.replace(/p/g, '') for a literal p: the occurrences removed left to right
RECURSIVE RemoveAll(_, _)
RemoveAll(s, p) ==
    LET i == IndexOfFrom(s, p, 1)
    IN IF i = 0 THEN s
       ELSE SubSeq(s, 1, i - 1) \o RemoveAll(SubSeq(s, i + Len(p), Len(s)), p)

\* the first index at or after i holding no white space (Len(s) + 1 if none)
RECURSIVE SkipSpace(_, _)
SkipSpace(s, i) ==
    IF i <= Len(s) /\ IsSpace(CharAt(s, i)) THEN SkipSpace(s, i + 1) ELSE i

\* line 639, /^^^\s*mermaid\s*\n([\s\S]*?)\n^^^/i tried with the fence at i:
\* the places where the capture group can start, one for each length the
\* second \s* can take that leaves a newline next and a closing "\n^^^" later
GroupStarts(s, i) ==
    IF ~OccursAt(s, Fence, i) THEN {}
    ELSE LET w == SkipSpace(s, i + 3)
         IN IF w + 6 > Len(s) \/ toLowerCase(SubSeq(s, w, w + 6)) # "mermaid" THEN {}
            ELSE {g \in (w + 8)..SkipSpace(s, w + 7) :
                    /\ CharAt(s, g - 1) = "\n"
                    /\ IndexOfFrom(s, "\n" \o Fence, g) # 0}

NoMatch == [found |-> FALSE, group |-> ""]

\* String.prototype.match: the leftmost fence that matches; the second \s* is
\* greedy (the latest group start) and the group lazy (the nearest closing fence)
FenceMatch(s) ==
    LET starts == {i \in 1..Len(s) : GroupStarts(s, i) # {}}
    IN IF starts = {} THEN NoMatch
       ELSE LET i == CHOOSE i \in starts : \A j \in starts : i <= j
                g == CHOOSE g \in GroupStarts(s, i) : \A h \in GroupStarts(s, i) : h <= g
            IN [found |-> TRUE,
                group |-> SubSeq(s, g, IndexOfFrom(s, "\n" \o Fence, g) - 1)]

\* lines 638-642 of runExportMermaid: the text handed to the renderer
MermaidTextOf(fenced) ==
    LET match == FenceMatch(fenced)
    IN IF match.found /\ match.group # "" THEN match.group
       ELSE trim(RemoveAll(fenced, Fence))

\* line 605 of exportWorkspace: the content written to wholeflow.mmd
WrapMermaid(text) == Fence \o "mermaid\n" \o text \o "\n" \o Fence \o "\n"

(***************************************************************************)
(* The diagram text as the string convertFolderToFlowchart returns: each   *)
(* line as the template literals of lines 109-226 write it.                *)
(***************************************************************************)
RenderLine(ln) ==
    CASE ln.t = "header"   -> ln.l \o "\n"
      [] ln.t = "subgraph" -> "    subgraph " \o ln.a \o "[" \o ln.l \o "]\n"
      [] ln.t = "fn"       -> "        " \o ln.a \o "[\"fn: " \o ln.l \o "\"]\n"
      [] ln.t = "class"    -> "        " \o ln.a \o "[\"class: " \o ln.l \o "\"]\n"
      [] ln.t = "fallback" -> "        " \o ln.a \o "[\"" \o ln.l \o "\\n" \o ToString(ln.n)
                                 \o " lines\"]\n"
      [] ln.t = "end"      -> "    end\n"
      [] ln.t = "edge"     -> "    " \o ln.a \o " --> " \o ln.b \o "\n"
      [] ln.t = "extedge"  -> "    " \o ln.a \o " --> " \o ln.b \o "[\"" \o ln.l \o "\"]\n"
      [] ln.t = "dashed"   -> "    " \o ln.a \o " -.-> " \o ln.b \o "\n"
      [] ln.t = "anchor"   -> "    " \o ln.a \o "([" \o ln.l \o "])\n"

RECURSIVE RenderText(_)
RenderText(code) ==
    IF code = <<>> THEN "" ELSE RenderLine(Head(code)) \o RenderText(Tail(code))

(***************************************************************************)
(* What a command shows, starts and ends with, in order: records           *)
(* [kind, text].  Kinds: "warning", "error" and "info" (the notifications  *)
(* of vscode.window), "convert" (convertFolderToFlowchart is called),      *)
(* "panel" (a webview panel is created), "write" (a file is written, text  *)
(* its name), "spawn" (a renderer subprocess is started, text the          *)
(* strategy), "open" (the SVG is opened), "returned" and "thrown" (a       *)
(* function called on its own ends), "extracted" and "backbone" (what a    *)
(* call extracted and how it ordered the files), "stderr" and "exit".      *)
(***************************************************************************)
Effect(kind, text) == [kind |-> kind, text |-> text]

EffectsOfKind(kind) == {i \in 1..Len(effects) : effects[i].kind = kind}

\* a strategy of runExportMermaid that was tried: whether a subprocess was
\* started for it, and why it failed ("" while it runs or when it succeeded)
Attempt(strategy, started, reason) ==
    [strategy |-> strategy, started |-> started, reason |-> reason]

\* convertToFlowchart, lines 23-36, on a file content of the model: every
\* statement is one non-blank line, so lines.length is the number of tokens.
\* No command calls it.
convertToFlowchart(code) ==
    "flowchart TD\n"
    \o "    Start([Start]) --> Process1[\"Code parsed\"]\n"
    \o "    Process1 --> Process2[\"" \o ToString(Len(code)) \o " lines of code\"]\n"
    \o "    Process2 --> End([End])\n"

\* the three commands activate registers, lines 430, 475 and 570
ExtensionCommands == {"generate", "generateFolder", "exportWorkspace"}

NoFilesWarning == "No code files found in the selected folder."

\* the message of the error a failing stat rejects with
StatErrorMessage == "ENOENT: no such file or directory, stat"

\* the message of the error a failing writeFileSync throws
WriteErrorMessage == "EACCES: permission denied, open"

\* the catch clauses of the commands, lines 467-469, 559-561 and 617-619
CaughtMessage(cmd, message) ==
    IF cmd = "exportWorkspace" THEN "Error exporting flowchart: " \o message
    ELSE "Error generating flowchart: Error: " \o message

Scanning == command \in ExtensionCommands /\ step = "scanning"

\* the commands without the test of files.length: the warning, then on
ReportNoFilesAndGoOn ==
    /\ Scanning
    /\ scan = "returned"
    /\ Len(files) = 0
    /\ pc = "idle"
    /\ effects' = Append(effects, Effect("warning", NoFilesWarning))
    /\ pc' = "start"
    /\ step' = "converting"
    /\ UNCHANGED <<files, nodes, mermaidCode, incoming, outgoing, adjacency, inDegreeMap, q,
                   topoOrder, command, suspended, disk, attempts, collectVars>>

\* lines 455-459, 524-529 and 594-598: nothing was collected
ReportNoFiles ==
    /\ Scanning
    /\ scan = "returned"
    /\ Len(files) = 0
    /\ effects' = Append(effects, Effect("warning", NoFilesWarning))
    /\ step' = "finished"
    /\ UNCHANGED <<files, command, suspended, disk, attempts, collectVars, convertVars>>

\* readFolderRecursive rejected: the catch clause of the command reports it
ReportScanError ==
    /\ Scanning
    /\ scan = "rejected"
    /\ effects' = Append(effects, Effect("error", CaughtMessage(command, StatErrorMessage)))
    /\ step' = "finished"
    /\ UNCHANGED <<files, command, suspended, disk, attempts, collectVars, convertVars>>

\* lines 460-461, 531-534 and 600-601: convertFolderToFlowchart is called
StartConversion ==
    /\ Scanning
    /\ scan = "returned"
    /\ Len(files) # 0
    /\ pc = "idle"
    /\ pc' = "start"
    /\ step' = "converting"
    /\ effects' = Append(effects, Effect("convert", ""))
    /\ UNCHANGED <<files, nodes, mermaidCode, incoming, outgoing, adjacency, inDegreeMap, q,
                   topoOrder, command, suspended, disk, attempts, collectVars>>

\* lines 464-467 and 539-558: the diagram is shown in a webview panel
ShowPanel ==
    /\ command \in {"generate", "generateFolder"}
    /\ step = "converting"
    /\ pc = "done"
    /\ effects' = effects \o <<Effect("panel", RenderText(mermaidCode)),
                                Effect("info", "Flowchart generated")>>
    /\ step' = "finished"
    /\ UNCHANGED <<files, command, suspended, disk, attempts, collectVars, convertVars>>

(***************************************************************************)
(* runExportMermaid, extension.ts lines 628-697.  It runs without a pause  *)
(* up to `await tryExec()`, then from the end of that subprocess to the    *)
(* end of the function or to the start of the local binary, then from the  *)
(* end of the local binary to the end of the function.                     *)
(***************************************************************************)
NotFoundMessage == "wholeflow.mmd not found in the workspace root. Run generation first."
NoContentMessage == "No mermaid content found in wholeflow.mmd"
FailedMessage ==
    "Failed to run Mermaid CLI automatically. Install @mermaid-js/mermaid-cli or use npx. "
LocalNotFoundMessage == "Local mmdc not found"

\* how a renderer subprocess ends: exit code 0, another exit code, or the
\* 'error' event (the subprocess could not be started)
Outcomes == {"ok", "code", "error"}

\* lines 661-662: the reason tryExec rejects with
ExecFailure(outcome) ==
    IF outcome = "code" THEN "npm exec mmdc failed with code 1" ELSE "spawn npm ENOENT"

\* lines 671-676: the reason tryLocal rejects with
LocalFailure(outcome) ==
    IF outcome = "code" THEN "local mmdc failed with code 1" ELSE "spawn mmdc EACCES"

\* the function returns: lines 611-616 of exportWorkspace go on
ExportReturns(eff) ==
    /\ effects' = eff \o (IF command = "exportWorkspace"
                           THEN <<Effect("open", "wholeflow.svg"),
                                  Effect("info", "Exported flowchart to wholeflow.svg")>>
                           ELSE <<Effect("returned", "")>>)
    /\ step' = "finished"

\* the function throws: the catch clause of exportWorkspace, lines 617-619
ExportThrows(eff, message) ==
    /\ effects' = Append(eff, IF command = "exportWorkspace"
                               THEN Effect("error", CaughtMessage(command, message))
                               ELSE Effect("thrown", message))
    /\ step' = "finished"

\* lines 628-687, to `await tryExec()`: entered with the files d, after the effects eff
BeginExport(d, eff) ==
    IF ~d.mmd.exists
    THEN /\ ExportThrows(eff, NotFoundMessage)
         /\ disk' = d
         /\ UNCHANGED attempts
    ELSE LET mermaidText == MermaidTextOf(d.mmd.content)
         IN IF mermaidText = "" \/ Len(trim(mermaidText)) = 0
            THEN /\ ExportThrows(eff, NoContentMessage)
                 /\ disk' = d
                 /\ UNCHANGED attempts
            ELSE \E rawWritable, configWritable \in BOOLEAN :
                    IF ~rawWritable
                    THEN /\ ExportThrows(eff, WriteErrorMessage)
                         /\ disk' = d
                         /\ UNCHANGED attempts
                    ELSE /\ disk' = [d EXCEPT !.raw = File(mermaidText),
                                              !.config = @ \/ configWritable]
                         /\ effects' = eff \o <<Effect("write", "wholeflow_raw.mmd")>>
                                \o (IF configWritable
                                    THEN <<Effect("write", "mmdc-temp-config.json")>> ELSE <<>>)
                                \o <<Effect("spawn", "npm exec")>>
                         /\ attempts' = <<Attempt("npm exec", TRUE, "")>>
                         /\ step' = "tryExec"

\* runExportMermaid called on its own
CallRunExportMermaid ==
    /\ command = "runExportMermaid"
    /\ step = "called"
    /\ BeginExport(disk, effects)
    /\ UNCHANGED <<files, command, suspended, collectVars, convertVars>>

\* lines 603-608 of exportWorkspace: wholeflow.mmd is written, runExportMermaid called
WriteAndExport ==
    /\ command = "exportWorkspace"
    /\ step = "converting"
    /\ pc = "done"
    /\ \E mmdWritable \in BOOLEAN :
          IF ~mmdWritable
          THEN /\ effects' = Append(effects,
                                    Effect("error", CaughtMessage(command, WriteErrorMessage)))
               /\ step' = "finished"
               /\ UNCHANGED <<disk, attempts>>
          ELSE BeginExport([disk EXCEPT !.mmd = File(WrapMermaid(RenderText(mermaidCode)))],
                           Append(effects, Effect("write", "wholeflow.mmd")))
    /\ UNCHANGED <<files, command, suspended, collectVars, convertVars>>

\* the last attempt failed for this reason
Failed(tried, reason) == [tried EXCEPT ![Len(tried)].reason = reason]

\* tryExec settles and tryLocal is called whenever the local binary is there
ExecClosesThenLocal ==
    /\ command \in {"exportWorkspace", "runExportMermaid"}
    /\ step = "tryExec"
    /\ \E outcome \in Outcomes :
          IF ~disk.localBin
          THEN IF outcome = "ok"
               THEN /\ disk' = [disk EXCEPT !.svg = TRUE, !.config = FALSE]
                    /\ ExportReturns(effects)
                    /\ UNCHANGED attempts
               ELSE /\ attempts' = Append(Failed(attempts, ExecFailure(outcome)),
                                          Attempt("local", FALSE, LocalNotFoundMessage))
                    /\ disk' = [disk EXCEPT !.config = FALSE]
                    /\ ExportThrows(effects, FailedMessage \o LocalNotFoundMessage)
          ELSE /\ attempts' = Append(IF outcome = "ok" THEN attempts
                                     ELSE Failed(attempts, ExecFailure(outcome)),
                                     Attempt("local", TRUE, ""))
               /\ effects' = Append(effects, Effect("spawn", "local"))
               /\ step' = "tryLocal"
               /\ disk' = [disk EXCEPT !.svg = @ \/ outcome = "ok"]
    /\ UNCHANGED <<files, command, suspended, collectVars, convertVars>>

\* lines 681-696: tryExec settles; if it rejected, tryLocal is called
ExecCloses ==
    /\ command \in {"exportWorkspace", "runExportMermaid"}
    /\ step = "tryExec"
    /\ \E outcome \in Outcomes :
          IF outcome = "ok"
          THEN /\ disk' = [disk EXCEPT !.svg = TRUE, !.config = FALSE]
               /\ ExportReturns(effects)
               /\ UNCHANGED attempts
          ELSE IF ~disk.localBin
          THEN /\ attempts' = Append(Failed(attempts, ExecFailure(outcome)),
                                     Attempt("local", FALSE, LocalNotFoundMessage))
               /\ disk' = [disk EXCEPT !.config = FALSE]
               /\ ExportThrows(effects, FailedMessage \o LocalNotFoundMessage)
          ELSE /\ attempts' = Append(Failed(attempts, ExecFailure(outcome)),
                                     Attempt("local", TRUE, ""))
               /\ effects' = Append(effects, Effect("spawn", "local"))
               /\ step' = "tryLocal"
               /\ UNCHANGED disk
    /\ UNCHANGED <<files, command, suspended, collectVars, convertVars>>

\* lines 684-696: tryLocal settles
LocalCloses ==
    /\ command \in {"exportWorkspace", "runExportMermaid"}
    /\ step = "tryLocal"
    /\ \E outcome \in Outcomes :
          IF outcome = "ok"
          THEN /\ disk' = [disk EXCEPT !.svg = TRUE, !.config = FALSE]
               /\ ExportReturns(effects)
               /\ UNCHANGED attempts
          ELSE /\ attempts' = Failed(attempts, LocalFailure(outcome))
               /\ disk' = [disk EXCEPT !.config = FALSE]
               /\ ExportThrows(effects, FailedMessage \o LocalFailure(outcome))
    /\ UNCHANGED <<files, command, suspended, collectVars, convertVars>>

(***************************************************************************)
(* The standalone generator, generateFlow.ts: getAllFiles, resolveImport,  *)
(* buildMermaid and main.  Its makeId and extractImportsAndSymbols are the *)
(* same text as the extension's.  It holds no await: main is one step.     *)
(***************************************************************************)
IGNORES == <<"node_modules", ".git", ".vscode", "out", "dist", "build">>

shouldIgnore(p) == \E i \in 1..Len(IGNORES) : Includes(p, IGNORES[i])

\* line 13
TEXT_EXTS ==
    {".js", ".ts", ".jsx", ".tsx", ".py", ".java", ".cpp", ".c", ".cs", ".go", ".rs", ".php",
     ".rb", ".swift", ".kt", ".html", ".css", ".json", ".xml", ".yaml", ".yml", ".md", ".txt"}

\* the result of a call that can throw
Returned(value) == [thrown |-> FALSE, value |-> value]
ThrownResult == [thrown |-> TRUE, value |-> <<>>]

\* lines 19-34: statSync comes before the ignore test and throws on an entry
\* stat fails on; whatever is not a directory is taken by its extension
RECURSIVE getAllFiles(_)
RECURSIVE getAllFilesFrom(_, _)
getAllFiles(dir) == getAllFilesFrom(dir, 1)

getAllFilesFrom(dir, i) ==
    IF i > Len(tree.node[dir].entries) THEN Returned(<<>>)
    ELSE LET full == PathJoin(dir, tree.node[dir].entries[i])
             ext == toLowerCase(PathExtname(full))
         IN IF tree.node[full].kind = "staterr" THEN ThrownResult
            ELSE LET here == IF shouldIgnore(full) THEN Returned(<<>>)
                             ELSE IF tree.node[full].kind = "dir" THEN getAllFiles(full)
                             ELSE IF ext \in TEXT_EXTS \/ ext = "" THEN Returned(<<full>>)
                             ELSE Returned(<<>>)
                     rest == IF here.thrown THEN ThrownResult ELSE getAllFilesFrom(dir, i + 1)
                 IN IF here.thrown \/ rest.thrown THEN ThrownResult
                    ELSE Returned(here.value \o rest.value)

\* path.relative(root, p) for a path p below root
PathRelative(root, p) ==
    IF StartsWith(p, root \o "/") THEN SubSeq(p, Len(root) + 2, Len(p)) ELSE p

\* new Set(imports), line 141: the first occurrence of each string, in order
RECURSIVE SetOf(_, _)
SetOf(seq, acc) == IF seq = <<>> THEN acc ELSE SetOf(Tail(seq), SetAdd(acc, Head(seq)))

\* the FileNode main pushes for a file it could read, lines 139-141
FileNode(root, filePath, content) ==
    LET r == extractImportsAndSymbols(content)
    IN [filePath |-> filePath, relPath |-> PathRelative(root, filePath),
        imports |-> SetOf(r.imports, <<>>), functions |-> r.functions, classes |-> r.classes]

\* what resolveImport gives when a probe throws: nothing catches it
Thrown == "<thrown>"

\* lines 75-77: the candidate loop, no try around the probes
RECURSIVE FirstRegularFileOrThrow(_)
FirstRegularFileOrThrow(cands) ==
    IF cands = <<>> THEN Null
    ELSE IF StatThrows(Head(cands)) THEN Thrown
         ELSE IF IsRegularFile(Head(cands)) THEN PathResolve("/", Head(cands))
              ELSE FirstRegularFileOrThrow(Tail(cands))

\* resolveImport of generateFlow.ts, lines 69-80
resolveImportStandalone(fromFile, imp) ==
    IF StartsWith(imp, ".") \/ StartsWith(imp, "/")
    THEN FirstRegularFileOrThrow(Candidates(PathResolve(PathDirname(fromFile), imp)))
    ELSE Null

\* lines 92-104: the block of one file
ContainerLines(n) ==
    <<Line("subgraph", makeId(n.relPath), "", n.relPath, 0)>>
    \o [i \in 1..Min(8, Len(n.functions)) |->
          Line("fn", makeId(n.relPath \o "_" \o n.functions[i]), "", n.functions[i], 0)]
    \o [i \in 1..Min(8, Len(n.classes)) |->
          Line("class", makeId(n.relPath \o "_" \o n.classes[i]), "", n.classes[i], 0)]
    \o <<Line("end", "", "", "", 0)>>

RECURSIVE AllContainerLines(_)
AllContainerLines(ns) ==
    IF ns = <<>> THEN <<>> ELSE ContainerLines(Head(ns)) \o AllContainerLines(Tail(ns))

\* byPath, line 87: the last node of a path wins
RECURSIVE byPathOf(_, _)
byPathOf(ns, m) ==
    IF ns = <<>> THEN m
    ELSE byPathOf(Tail(ns), MapSet(m, PathResolve("/", Head(ns).filePath), Head(ns)))

\* lines 109-124: the imports of one file, out the lines so far
RECURSIVE EdgeLinesOfImports(_, _, _, _)
EdgeLinesOfImports(out, byPath, n, imps) ==
    IF imps = <<>> THEN Returned(out)
    ELSE LET from == makeId(n.relPath)
             imp == Head(imps)
             resolved == resolveImportStandalone(n.filePath, imp)
         IN IF resolved = Thrown THEN ThrownResult
            ELSE IF resolved # Null
            THEN EdgeLinesOfImports(
                    IF MapHas(byPath, PathResolve("/", resolved))
                    THEN Append(out, Line("edge", from,
                                          makeId(MapGet(byPath, PathResolve("/", resolved)).relPath),
                                          "", 0))
                    ELSE out,
                    byPath, n, Tail(imps))
            ELSE EdgeLinesOfImports(
                    IF ~StartsWith(imp, ".")
                    THEN Append(out, Line("extedge", from, makeId("ext_" \o imp), imp, 0))
                    ELSE out,
                    byPath, n, Tail(imps))

\* lines 107-125
RECURSIVE EdgeLinesOfNodes(_, _, _)
EdgeLinesOfNodes(out, byPath, ns) ==
    IF ns = <<>> THEN Returned(out)
    ELSE LET r == EdgeLinesOfImports(out, byPath, Head(ns), Head(ns).imports)
         IN IF r.thrown THEN ThrownResult ELSE EdgeLinesOfNodes(r.value, byPath, Tail(ns))

\* lines 86-128: the lines of the diagram, or what a probe threw
buildMermaid(ns) ==
    EdgeLinesOfNodes(<<Line("header", "", "", "flowchart TD", 0)>> \o AllContainerLines(ns),
                     byPathOf(ns, <<>>), ns)

\* buildMermaid called on the files the extension's builder is given: the
\* nodes of lines 137-141, then the lines of the diagram or what was thrown
RunBuildMermaid ==
    /\ pc = "start"
    /\ command = "buildMermaid"
    /\ LET ns == [i \in 1..Len(files) |->
                    FileNode(RootPath, files[i].path, files[i].content)]
           built == buildMermaid(ns)
       IN /\ nodes' = ns
          /\ IF built.thrown
             THEN /\ effects' = Append(effects, Effect("thrown", StatErrorMessage))
                  /\ UNCHANGED mermaidCode
             ELSE /\ mermaidCode' = built.value
                  /\ UNCHANGED effects
    /\ pc' = "standalone"
    /\ UNCHANGED <<files, incoming, outgoing, adjacency, inDegreeMap, q, topoOrder,
                   command, suspended, step, disk, attempts, collectVars>>

\* main, lines 130-158.  A file readFileSync throws on is skipped (lines
\* 142-144): an unreadable regular file, and an entry that is no regular file.
GenerateFlowMain ==
    /\ command = "generate-flow"
    /\ step = "called"
    /\ step' = "finished"
    /\ LET found == getAllFiles(tree.root)
           readable == IF found.thrown THEN <<>>
                       ELSE SelectSeq(found.value, LAMBDA f : tree.node[f].kind = "file")
           ns == [i \in 1..Len(readable) |-> FileNode(tree.root, readable[i], <<>>)]
           built == buildMermaid(ns)
       IN IF found.thrown
          THEN /\ effects' = effects \o <<Effect("thrown", StatErrorMessage), Effect("exit", "1")>>
               /\ UNCHANGED <<files, disk>>
          ELSE /\ files' = [i \in 1..Len(ns) |->
                              [path |-> ns[i].filePath, name |-> ns[i].relPath,
                               content |-> <<>>, lineCount |-> 1]]
               /\ IF Len(ns) = 0
                  THEN /\ effects' = effects \o <<Effect("stderr", "No files found to analyze."),
                                                  Effect("exit", "1")>>
                       /\ UNCHANGED disk
                  ELSE IF built.thrown
                  THEN /\ effects' = effects \o <<Effect("convert", "buildMermaid"),
                                                  Effect("thrown", StatErrorMessage),
                                                  Effect("exit", "1")>>
                       /\ UNCHANGED disk
                  ELSE \E mmdWritable \in BOOLEAN :
                         IF mmdWritable
                         THEN /\ disk' = [disk EXCEPT
                                            !.mmd = File(WrapMermaid(RenderText(built.value)))]
                              /\ effects' = effects \o <<Effect("convert", "buildMermaid"),
                                                         Effect("write", "wholeflow.mmd"),
                                                         Effect("exit", "0")>>
                         ELSE /\ effects' = effects \o <<Effect("convert", "buildMermaid"),
                                                         Effect("thrown", WriteErrorMessage),
                                                         Effect("exit", "1")>>
                              /\ UNCHANGED disk
    /\ UNCHANGED <<command, suspended, attempts, collectVars, convertVars>>

(***************************************************************************)
(* The export script (src/unnamed/part_000, its second version, lines      *)
(* 67-160, run as `npm run export-flow`).  spawnSync waits for the         *)
(* subprocess: the script is cut where a subprocess runs.                  *)
(***************************************************************************)
ScriptFailedMessage == "Failed to run Mermaid CLI automatically."

\* lines 11 and 77
ScriptNotFoundMessage ==
    "Error: wholeflow.mmd not found in the workspace root. Run ^npm run generate-flow^ first."

\* process.exit(code) after the lines written to stderr
ScriptExits(eff, errors, code) ==
    /\ effects' = eff \o [i \in 1..Len(errors) |-> Effect("stderr", errors[i])]
                      \o <<Effect("exit", code)>>
    /\ step' = "finished"

\* lines 76-118, to the end of spawnSync('npm', ['exec', ...])
ScriptBegin ==
    /\ command = "export-flow"
    /\ step = "called"
    /\ IF ~disk.mmd.exists
       THEN /\ ScriptExits(effects, <<ScriptNotFoundMessage>>, "1")
            /\ UNCHANGED <<disk, attempts>>
       ELSE LET mermaidText == MermaidTextOf(disk.mmd.content)
            IN IF mermaidText = "" \/ Len(trim(mermaidText)) = 0
               THEN /\ ScriptExits(effects, <<NoContentMessage>>, "1")
                    /\ UNCHANGED <<disk, attempts>>
               ELSE \E rawWritable, configWritable \in BOOLEAN :
                       IF ~rawWritable
                       THEN /\ effects' = effects \o <<Effect("thrown", WriteErrorMessage),
                                                       Effect("exit", "1")>>
                            /\ step' = "finished"
                            /\ UNCHANGED <<disk, attempts>>
                       ELSE /\ disk' = [disk EXCEPT !.raw = File(mermaidText),
                                                    !.config = @ \/ configWritable]
                            /\ effects' = effects \o <<Effect("write", "wholeflow_raw.mmd")>>
                                   \o (IF configWritable
                                       THEN <<Effect("write", "mmdc-temp-config.json")>>
                                       ELSE <<>>)
                                   \o <<Effect("spawn", "npm exec")>>
                            /\ attempts' = <<Attempt("npm exec", TRUE, "")>>
                            /\ step' = "tryExec"
    /\ UNCHANGED <<files, command, suspended, collectVars, convertVars>>

\* lines 119-134 and 154-160: npm exec has ended
ScriptExecCloses ==
    /\ command = "export-flow"
    /\ step = "tryExec"
    /\ \E outcome \in Outcomes :
          IF outcome = "ok"
          THEN /\ disk' = [disk EXCEPT !.svg = TRUE]
               /\ ScriptExits(effects, <<>>, "0")
               /\ UNCHANGED attempts
          ELSE IF disk.localBin
          THEN /\ attempts' = Append(Failed(attempts, ExecFailure(outcome)),
                                     Attempt("local", TRUE, ""))
               /\ effects' = Append(effects, Effect("spawn", "local"))
               /\ step' = "tryLocal"
               /\ UNCHANGED disk
          ELSE /\ attempts' = Append(Failed(attempts, ExecFailure(outcome)),
                                     Attempt("local", FALSE, LocalNotFoundMessage))
               /\ disk' = [disk EXCEPT !.config = FALSE]
               /\ ScriptExits(effects, <<ScriptFailedMessage>>, "1")
    /\ UNCHANGED <<files, command, suspended, collectVars, convertVars>>

\* lines 136-151: the local binary has ended
ScriptLocalCloses ==
    /\ command = "export-flow"
    /\ step = "tryLocal"
    /\ \E outcome \in Outcomes :
          CASE outcome = "error" ->
                 /\ attempts' = Failed(attempts, LocalFailure(outcome))
                 /\ ScriptExits(effects, <<"Failed to run local mmdc: " \o LocalFailure(outcome)>>,
                                "1")
                 /\ UNCHANGED disk
            [] outcome = "ok" ->
                 /\ disk' = [disk EXCEPT !.svg = TRUE, !.config = FALSE]
                 /\ ScriptExits(effects, <<>>, "0")
                 /\ UNCHANGED attempts
            [] outcome = "code" ->
                 /\ attempts' = Failed(attempts, LocalFailure(outcome))
                 /\ disk' = [disk EXCEPT !.config = FALSE]
                 /\ ScriptExits(effects, <<"mmdc exited with code 1">>, "1")
    /\ UNCHANGED <<files, command, suspended, collectVars, convertVars>>

(***************************************************************************)
(* The first version of the export script (src/unnamed/part_000, lines     *)
(* 1-65): no temporary config, and the local binary comes first.           *)
(***************************************************************************)
\* lines 10-53, to the end of the first spawnSync
ScriptV1Begin ==
    /\ command = "export-flow-v1"
    /\ step = "called"
    /\ IF ~disk.mmd.exists
       THEN /\ ScriptExits(effects, <<ScriptNotFoundMessage>>, "1")
            /\ UNCHANGED <<disk, attempts>>
       ELSE LET mermaidText == MermaidTextOf(disk.mmd.content)
            IN IF mermaidText = "" \/ Len(trim(mermaidText)) = 0
               THEN /\ ScriptExits(effects, <<NoContentMessage>>, "1")
                    /\ UNCHANGED <<disk, attempts>>
               ELSE \E rawWritable \in BOOLEAN :
                       IF ~rawWritable
                       THEN /\ effects' = effects \o <<Effect("thrown", WriteErrorMessage),
                                                       Effect("exit", "1")>>
                            /\ step' = "finished"
                            /\ UNCHANGED <<disk, attempts>>
                       ELSE /\ disk' = [disk EXCEPT !.raw = File(mermaidText)]
                            /\ IF disk.localBin
                               THEN /\ effects' = effects \o <<Effect("write", "wholeflow_raw.mmd"),
                                                               Effect("spawn", "local")>>
                                    /\ attempts' = <<Attempt("local", TRUE, "")>>
                                    /\ step' = "tryLocal"
                               ELSE /\ effects' = effects \o <<Effect("write", "wholeflow_raw.mmd"),
                                                               Effect("spawn", "npm exec")>>
                                    /\ attempts' = <<Attempt("local", FALSE, LocalNotFoundMessage),
                                                     Attempt("npm exec", TRUE, "")>>
                                    /\ step' = "tryExec"
    /\ UNCHANGED <<files, command, suspended, collectVars, convertVars>>

\* lines 40-50: the local binary has ended; npm exec is not tried after it
ScriptV1LocalCloses ==
    /\ command = "export-flow-v1"
    /\ step = "tryLocal"
    /\ \E outcome \in Outcomes :
          CASE outcome = "error" ->
                 /\ attempts' = Failed(attempts, LocalFailure(outcome))
                 /\ ScriptExits(effects, <<"Failed to run local mmdc: " \o LocalFailure(outcome)>>,
                                "1")
                 /\ UNCHANGED disk
            [] outcome = "ok" ->
                 /\ disk' = [disk EXCEPT !.svg = TRUE]
                 /\ ScriptExits(effects, <<>>, "0")
                 /\ UNCHANGED attempts
            [] outcome = "code" ->
                 /\ attempts' = Failed(attempts, LocalFailure(outcome))
                 /\ ScriptExits(effects, <<"mmdc exited with code 1">>, "1")
                 /\ UNCHANGED disk
    /\ UNCHANGED <<files, command, suspended, collectVars, convertVars>>

\* lines 54-64: npm exec has ended
ScriptV1ExecCloses ==
    /\ command = "export-flow-v1"
    /\ step = "tryExec"
    /\ \E outcome \in Outcomes :
          IF outcome = "ok"
          THEN /\ disk' = [disk EXCEPT !.svg = TRUE]
               /\ ScriptExits(effects, <<>>, "0")
               /\ UNCHANGED attempts
          ELSE /\ attempts' = Failed(attempts, ExecFailure(outcome))
               /\ ScriptExits(effects, <<ScriptFailedMessage>>, "1")
               /\ UNCHANGED disk
    /\ UNCHANGED <<files, command, suspended, collectVars, convertVars>>

(***************************************************************************)
(* The operations as a user or a caller starts them: the three commands of *)
(* the extension and the standalone generator on a directory tree, and     *)
(* runExportMermaid and the export script on a folder that holds some      *)
(* wholeflow.mmd or none.                                                  *)
(***************************************************************************)
\* contents of wholeflow.mmd: a generated one, an empty and a blank file, a
\* fence around nothing, around one empty line and around a blank line, a
\* bare fence, a diagram without a fence, a fence with a spaced upper-case tag
MmdContents ==
    {WrapMermaid("flowchart TD\n    subgraph p_a_ts[p/a.ts]\n    end\n"),
     "", "  \n",
     Fence \o "mermaid\n" \o Fence \o "\n",
     Fence \o "mermaid\n\n" \o Fence \o "\n",
     Fence \o "mermaid\n \n" \o Fence \o "\n",
     Fence \o "\n" \o Fence,
     "flowchart TD\n    a --> b\n",
     Fence \o " Mermaid \t\nflowchart TD\n" \o Fence}

CommandPlans == UNION {PlansOfSize(k) : k \in 0..MaxCommandEntries}

InitCommand ==
    /\ suspended = NoInvocation
    /\ \/ \E cmd \in ExtensionCommands \cup {"generate-flow"} :
          \E root \in Roots : \E plan \in CommandPlans :
          \E bin \in (IF cmd = "exportWorkspace" THEN BOOLEAN ELSE {FALSE}) :
             /\ command = cmd
             /\ tree = TreeOf(root, plan)
             /\ IF cmd \in ExtensionCommands
                THEN /\ step = "scanning"
                     /\ scan = "walking"
                     /\ pending = <<Call(root, PathBasename(root))>>
                ELSE /\ step = "called"
                     /\ scan = "idle"
                     /\ pending = <<>>
             /\ disk = [NoDisk EXCEPT !.localBin = bin]
       \/ \E cmd \in {"runExportMermaid", "export-flow", "export-flow-v1"} :
          \E mmd \in {AbsentFile} \cup {File(c) : c \in MmdContents} : \E bin \in BOOLEAN :
             /\ command = cmd
             /\ step = "called"
             /\ tree = NoTree
             /\ scan = "idle"
             /\ pending = <<>>
             /\ disk = [NoDisk EXCEPT !.mmd = mmd, !.localBin = bin]
    /\ effects = <<>>
    /\ attempts = <<>>
    /\ files = <<>>
    /\ pc = "idle"
    /\ nodes = <<>>
    /\ mermaidCode = <<>>
    /\ incoming = <<>>
    /\ outgoing = <<>>
    /\ adjacency = <<>>
    /\ inDegreeMap = <<>>
    /\ q = <<>>
    /\ topoOrder = <<>>

NextCommand ==
    \/ SkipIgnored
    \/ StatFails
    \/ ReadDirectory
    \/ CollectFile
    \/ SkipUnreadable
    \/ SkipExtension
    \/ SkipOther
    \/ ReturnFiles
    \/ ReportNoFiles
    \/ ReportScanError
    \/ StartConversion
    \/ BuildGraph
    \/ KahnSeed
    \/ KahnStep
    \/ AppendRemaining
    \/ RenderBackbone
    \/ ShowPanel
    \/ WriteAndExport
    \/ CallRunExportMermaid
    \/ ExecCloses
    \/ LocalCloses
    \/ GenerateFlowMain
    \/ ScriptBegin
    \/ ScriptExecCloses
    \/ ScriptLocalCloses
    \/ ScriptV1Begin
    \/ ScriptV1LocalCloses
    \/ ScriptV1ExecCloses

SpecCommand == InitCommand /\ [][NextCommand]_vars

(***************************************************************************)
(* Inputs of the diagram builder: lists of FileInfo records the collector  *)
(* can return for the folder /w/p.  The files are regular files on disk,   *)
(* no path occurs twice, and the order is any order (directory entries     *)
(* come in enumeration order, and a file that cannot be read is left out). *)
(***************************************************************************)
\* the record readFolderRecursive pushes, lines 294-299, for the entry base of the root
FileInfo(base, content) ==
    [path |-> PathJoin(RootPath, base),
     name |-> PathJoin(PathBasename(RootPath), base),
     content |-> content,
     lineCount |-> Len(content) + 1]

\* the files in the order of the list l, and in the opposite order
BothOrders(l) == {l, [i \in 1..Len(l) |-> l[Len(l) + 1 - i]]}

\* the import strings written in the files: three that name files on disk,
\* a relative and an absolute one that name no file, and two packages;
\* d.x is also the name of a file next to the importing file
FileImportStrings == {"./a", "./b", "./c"}
ImportStrings == FileImportStrings \cup {"./x", "/x", "d.x", "d-x"}

\* which file holds which import statement, in text order: at most max
\* statements in the n files together, their strings taken from S
ImportPlans(n, S, max) ==
    UNION {{pl \in [1..k -> (1..n) \X S] :
                \A j \in 1..(k - 1) : pl[j][1] <= pl[j + 1][1]} : k \in 0..max}

RECURSIVE ImportTokens(_, _)
ImportTokens(pl, i) ==
    IF pl = <<>> THEN <<>>
    ELSE (IF Head(pl)[1] = i THEN <<Token("import", Head(pl)[2])>> ELSE <<>>)
            \o ImportTokens(Tail(pl), i)

\* the function and class declarations of a file with f functions and c classes
SymbolTokens(f, c) ==
    [j \in 1..f |-> Token(IF j % 2 = 1 THEN "function" ELSE "arrow", "f" \o ToString(j))]
    \o [j \in 1..c |-> Token("class", "C" \o ToString(j))]

\* The names a.ts, b.ts and c.ts are interchangeable, so the lists are taken
\* in one order and its opposite; the imports run both along and against it.

\* up to three files that import one another
InitChain ==
    \E n \in 1..3 : \E l \in BothOrders(SubSeq(<<"a.ts", "b.ts", "c.ts">>, 1, n)) :
        \E pl \in ImportPlans(n, FileImportStrings, MaxImports) :
            files = [i \in 1..n |-> FileInfo(l[i], ImportTokens(pl, i))]

\* up to two files with imports of every kind; c.ts is on disk and not collected
InitMixed ==
    \E n \in 1..2 : \E l \in BothOrders(SubSeq(<<"a.ts", "b.ts">>, 1, n)) :
        \E pl \in ImportPlans(n, ImportStrings, MaxMixedImports) :
            files = [i \in 1..n |-> FileInfo(l[i], ImportTokens(pl, i))]

\* files with declarations and no imports; a.ts and a_ts get the same identifier
InitDeclaring ==
    \E n \in 1..2 : \E l \in BothOrders(SubSeq(<<"a.ts", "a_ts">>, 1, n)) :
        \E fs \in [1..n -> 0..MaxDecls], cs \in [1..n -> 0..MaxDecls] :
            /\ fs[1] + cs[1] + (IF n = 2 THEN fs[2] + cs[2] ELSE 0) <= MaxDecls
            /\ files = [i \in 1..n |-> FileInfo(l[i], SymbolTokens(fs[i], cs[i]))]

\* import strings that hit each candidate of the resolver in turn (the exact
\* path, the four suffixes, index.ts and index.js), a directory that holds
\* index.tsx alone, a path present as n.ts and as n.js, and a missing one
ProbeStrings == {"./a.ts", "./b", "./g", "./h", "./k", "./f", "./m", "./e", "./n", "./x"}

\* the paths on which stat throws, in the inputs drawn
UnstatableSets == {{}, {"/w/p/n.ts"}, {"/w/p/b.ts"}}

\* one file that probes the file system, some of its probes throwing
InitProbing ==
    \E pl \in ImportPlans(1, ProbeStrings, MaxMixedImports) : \E u \in UnstatableSets :
        /\ files = <<FileInfo("a.ts", ImportTokens(pl, 1))>>
        /\ disk = [NoDisk EXCEPT !.unstatable = u]

\* one file whose import statements and require calls come in any order
InitRequiring ==
    \E k \in 0..MaxMixedImports :
        \E stmts \in [1..k -> {"import", "require"} \X {"./b", "./c"}] :
            files = <<FileInfo("a.ts", [j \in 1..k |-> Token(stmts[j][1], stmts[j][2])]),
                      FileInfo("b.ts", <<>>), FileInfo("c.ts", <<>>)>>

\* a.ts and a_ts, which get the same identifier, and b.ts: they import one
\* another and a package
InitColliding ==
    \E l \in BothOrders(<<"a.ts", "a_ts", "b.ts">>) :
        \E pl \in ImportPlans(3, {"./a", "./a_ts", "./b", "d-x"}, MaxMixedImports) :
            files = [i \in 1..3 |-> FileInfo(l[i], ImportTokens(pl, i))]

\* the files an input holds, and the paths on which stat throws
InitInputs ==
    \/ (InitChain \/ InitMixed \/ InitDeclaring \/ InitRequiring \/ InitColliding)
          /\ disk = NoDisk
    \/ InitProbing

\* nothing is built yet, no directory is being scanned
InitBuilder ==
    /\ pc = "start"
    /\ nodes = <<>>
    /\ mermaidCode = <<>>
    /\ incoming = <<>>
    /\ outgoing = <<>>
    /\ adjacency = <<>>
    /\ inDegreeMap = <<>>
    /\ q = <<>>
    /\ topoOrder = <<>>
    /\ tree = NoTree
    /\ scan = "idle"
    /\ pending = <<>>

\* the strings of a sequence, each followed by the separator
RECURSIVE JoinAll(_, _)
JoinAll(seq, sep) == IF seq = <<>> THEN "" ELSE Head(seq) \o sep \o JoinAll(Tail(seq), sep)

\* what the calls of extractImportsAndSymbols returned, file by file, as a text
RECURSIVE RenderExtraction(_)
RenderExtraction(ns) ==
    IF ns = <<>> THEN ""
    ELSE "imports: " \o JoinAll(Head(ns).imports, ",")
            \o " functions: " \o JoinAll(Head(ns).functions, ",")
            \o " classes: " \o JoinAll(Head(ns).classes, ",") \o "\n"
            \o RenderExtraction(Tail(ns))

\* convertFolderToFlowchart has returned and is called again on the same
\* files: what it returned and what it extracted is kept for comparison; the
\* second call makes its own Maps and arrays (lines 99-101, 132-141, 168-171)
CallAgain ==
    /\ command = "convertTwice"
    /\ step = "first"
    /\ pc = "done"
    /\ effects' = effects \o <<Effect("returned", RenderText(mermaidCode)),
                                Effect("extracted", RenderExtraction(nodes)),
                                Effect("backbone", JoinAll(topoOrder, ","))>>
    /\ step' = "second"
    /\ pc' = "start"
    /\ UNCHANGED <<files, nodes, mermaidCode, incoming, outgoing, adjacency, inDegreeMap, q,
                   topoOrder, command, suspended, disk, attempts, collectVars>>

\* convertFolderToFlowchart called twice on the same files
InitTwice ==
    /\ suspended = NoInvocation
    /\ \/ (InitMixed \/ InitRequiring) /\ disk = NoDisk
       \/ InitProbing
    /\ InitBuilder
    /\ command = "convertTwice"
    /\ step = "first"
    /\ effects = <<>>
    /\ attempts = <<>>

NextTwice ==
    \/ BuildGraph
    \/ KahnSeed
    \/ KahnStep
    \/ AppendRemaining
    \/ RenderBackbone
    \/ CallAgain

SpecTwice == InitTwice /\ [][NextTwice]_vars

\* a Markdown file (.md is in the allowlist) whose prose holds the word
\* import, a quote, a newline, a fenced code block and an apostrophe: the
\* class [^'"]+ of importRe, line 58, takes newlines and fences, so the
\* import string runs over the opening fence
FencedImport == "x:\n" \o Fence \o "js\ncode"

InitFenced ==
    \E l \in {<<"r.md">>} \cup BothOrders(<<"r.md", "a.ts">>) :
        files = [i \in 1..Len(l) |->
                    FileInfo(l[i], IF l[i] = "r.md" THEN <<Token("import", FencedImport)>>
                                   ELSE <<>>)]

\* codeToFlowchart.exportWorkspace from the call of convertFolderToFlowchart
\* on, line 601: the collector has returned the files
InitExport ==
    /\ suspended = NoInvocation
    /\ InitMixed \/ InitRequiring \/ InitFenced
    /\ \E bin \in BOOLEAN : disk = [NoDisk EXCEPT !.localBin = bin]
    /\ command = "exportWorkspace"
    /\ step = "converting"
    /\ effects = <<Effect("convert", "")>>
    /\ attempts = <<>>
    /\ pc = "start"
    /\ nodes = <<>>
    /\ mermaidCode = <<>>
    /\ incoming = <<>>
    /\ outgoing = <<>>
    /\ adjacency = <<>>
    /\ inDegreeMap = <<>>
    /\ q = <<>>
    /\ topoOrder = <<>>
    /\ tree = NoTree
    /\ scan = "returned"
    /\ pending = <<>>

NextExport ==
    \/ BuildGraph
    \/ KahnSeed
    \/ KahnStep
    \/ AppendRemaining
    \/ RenderBackbone
    \/ WriteAndExport
    \/ ExecCloses
    \/ LocalCloses

SpecExport == InitExport /\ [][NextExport]_vars

(***************************************************************************)
(* Two invocations of codeToFlowchart.exportWorkspace on the same folder.  *)
(* The handler is an async function: an invocation runs until its next     *)
(* await (readFolderRecursive, line 594; tryExec, line 682; tryLocal,      *)
(* line 685) and the event loop may then go on with the other one.  Each   *)
(* invocation has its own local variables; the folder is shared.           *)
(***************************************************************************)
\* the local variables and the position of the invocation that runs
Invocation ==
    [files |-> files, pc |-> pc, nodes |-> nodes, mermaidCode |-> mermaidCode,
     incoming |-> incoming, outgoing |-> outgoing, adjacency |-> adjacency,
     inDegreeMap |-> inDegreeMap, q |-> q, topoOrder |-> topoOrder,
     step |-> step, effects |-> effects, attempts |-> attempts]

\* an invocation as readFolderRecursive returns to it (line 594) with fs
Scanned(fs) ==
    [files |-> fs, pc |-> "start", nodes |-> <<>>, mermaidCode |-> <<>>,
     incoming |-> <<>>, outgoing |-> <<>>, adjacency |-> <<>>,
     inDegreeMap |-> <<>>, q |-> <<>>, topoOrder |-> <<>>,
     step |-> "converting", effects |-> <<Effect("convert", "")>>, attempts |-> <<>>]

\* the invocation that runs waits at an await, or has ended
AtAwait ==
    \/ step = "converting" /\ pc = "start"
    \/ step \in {"tryExec", "tryLocal", "finished"}

\* the event loop goes on with the other invocation
Resume ==
    /\ command = "exportWorkspace"
    /\ suspended.step \notin {"none", "finished"}
    /\ AtAwait
    /\ files' = suspended.files
    /\ pc' = suspended.pc
    /\ nodes' = suspended.nodes
    /\ mermaidCode' = suspended.mermaidCode
    /\ incoming' = suspended.incoming
    /\ outgoing' = suspended.outgoing
    /\ adjacency' = suspended.adjacency
    /\ inDegreeMap' = suspended.inDegreeMap
    /\ q' = suspended.q
    /\ topoOrder' = suspended.topoOrder
    /\ step' = suspended.step
    /\ effects' = suspended.effects
    /\ attempts' = suspended.attempts
    /\ suspended' = Invocation
    /\ UNCHANGED <<command, disk, collectVars>>

\* what a scan of the folder returns: a.ts alone, or a.ts and the b.ts it
\* imports (b.ts and the import were saved between the two scans)
OverlapScans ==
    {<<FileInfo("a.ts", <<>>)>>,
     <<FileInfo("a.ts", <<Token("import", "./b")>>), FileInfo("b.ts", <<>>)>>}

InitOverlap ==
    /\ \E fs1, fs2 \in OverlapScans :
          /\ files = fs1
          /\ suspended = Scanned(fs2)
    /\ \E bin \in BOOLEAN : disk = [NoDisk EXCEPT !.localBin = bin]
    /\ command = "exportWorkspace"
    /\ step = "converting"
    /\ effects = <<Effect("convert", "")>>
    /\ attempts = <<>>
    /\ pc = "start"
    /\ nodes = <<>>
    /\ mermaidCode = <<>>
    /\ incoming = <<>>
    /\ outgoing = <<>>
    /\ adjacency = <<>>
    /\ inDegreeMap = <<>>
    /\ q = <<>>
    /\ topoOrder = <<>>
    /\ tree = NoTree
    /\ scan = "returned"
    /\ pending = <<>>

NextOverlap ==
    \/ BuildGraph
    \/ KahnSeed
    \/ KahnStep
    \/ AppendRemaining
    \/ RenderBackbone
    \/ WriteAndExport
    \/ ExecCloses
    \/ LocalCloses
    \/ Resume

SpecOverlap == InitOverlap /\ [][NextOverlap]_vars

\* convertFolderToFlowchart called on its own
Init ==
    /\ InitInputs
    /\ InitBuilder
    /\ NoCommand

\* folders of one to three files: a.ts imports b.ts in some of them, the
\* other files import nothing
InitShort ==
    /\ \E n \in 1..3 : \E head \in {<<>>} \cup BothOrders(<<"a.ts", "b.ts">>) :
            /\ Len(head) <= n
            /\ files = [i \in 1..Len(head) |->
                            FileInfo(head[i], IF head[i] = "a.ts"
                                              THEN <<Token("import", "./b")>> ELSE <<>>)]
                       \o [i \in 1..(n - Len(head)) |-> FileInfo("p" \o ToString(i) \o ".ts", <<>>)]
    /\ disk = NoDisk
    /\ InitBuilder
    /\ NoCommand

\* lines 198-204 on their own: the backbone order of a folder of up to
\* MAX_PIPE_NODES + MaxBeyondCap files, of which the lines read nothing else
InitPipeline ==
    /\ \E n \in 1..(MAX_PIPE_NODES + MaxBeyondCap) :
            topoOrder \in BothOrders([i \in 1..n |-> makeId("p/p" \o ToString(i) \o ".ts")])
    /\ pc = "pipeline"
    /\ files = <<>>
    /\ nodes = <<>>
    /\ mermaidCode = <<>>
    /\ incoming = <<>>
    /\ outgoing = <<>>
    /\ adjacency = <<>>
    /\ inDegreeMap = <<>>
    /\ q = <<>>
    /\ tree = NoTree
    /\ scan = "idle"
    /\ pending = <<>>
    /\ disk = NoDisk
    /\ NoCommand

\* lines 199-204
DrawPipeline ==
    /\ pc = "pipeline"
    /\ mermaidCode' = mermaidCode \o PipelineLines(topoOrder)
    /\ pc' = "drawn"
    /\ UNCHANGED <<files, nodes, incoming, outgoing, adjacency, inDegreeMap, q, topoOrder,
                   collectVars, commandVars>>

InitLong == InitShort \/ InitPipeline

\* buildMermaid of the standalone generator called on its own
InitStandalone ==
    /\ suspended = NoInvocation
    /\ InitInputs
    /\ InitBuilder
    /\ command = "buildMermaid"
    /\ step = "idle"
    /\ effects = <<>>
    /\ attempts = <<>>

SpecStandalone == InitStandalone /\ [][RunBuildMermaid]_vars

Next ==
    \/ BuildGraph
    \/ KahnSeed
    \/ KahnStep
    \/ AppendRemaining
    \/ RenderBackbone

Spec == Init /\ [][Next]_vars

\* convertFolderToFlowchart runs on: the loop of lines 178-189 is synchronous
\* code, so an iteration that can be made is made
SpecRunning == Init /\ [][Next]_vars /\ WF_vars(KahnStep)

\* convertFolderToFlowchart on small folders, and its dashed chain on large ones
NextLong == Next \/ DrawPipeline

SpecLong == InitLong /\ [][NextLong]_vars

(***************************************************************************)
(* Vocabulary of the properties.                                           *)
(***************************************************************************)
Range(s) == {s[i] : i \in 1..Len(s)}

NoRepeats(s) == \A i, j \in 1..Len(s) : i # j => s[i] # s[j]

\* the identifier of the node of each file, in collection order
FileIds == [i \in 1..Len(files) |-> makeId(files[i].name)]

\* position of the identifier id in the backbone (0: absent)
PositionOf(id) ==
    IF SeqIncludes(topoOrder, id) THEN CHOOSE i \in 1..Len(topoOrder) : topoOrder[i] = id ELSE 0

\* the import strings of file i, as extracted
ImportsOf(i) == extractImportsAndSymbols(files[i].content).imports

\* the k-th import of file i resolves to collected file j
ResolvesTo(i, k, j) ==
    /\ resolveImport(files[i].path, ImportsOf(i)[k]) # Null
    /\ resolveImport(files[i].path, ImportsOf(i)[k]) = files[j].path

\* the k-th import of file i resolves to no file
Unresolved(i, k) == resolveImport(files[i].path, ImportsOf(i)[k]) = Null

\* file i imports file j
ImportsFile(i, j) == \E k \in 1..Len(ImportsOf(i)) : ResolvesTo(i, k, j)

\* the files reachable from file i along imports in at most n steps
RECURSIVE ReachableFrom(_, _)
ReachableFrom(S, n) ==
    IF n = 0 THEN S
    ELSE ReachableFrom(S \cup {j \in 1..Len(files) : \E i \in S : ImportsFile(i, j)}, n - 1)

\* the file-to-file import graph has no cycle (a self-import is a cycle)
AcyclicImports ==
    \A i \in 1..Len(files) :
        i \notin ReachableFrom({j \in 1..Len(files) : ImportsFile(i, j)}, Len(files))

\* the import occurrences <<file, position>> of the input
Occurrences == UNION {{<<i, k>> : k \in 1..Len(ImportsOf(i))} : i \in 1..Len(files)}

\* the lines of the diagram text that satisfy a test
LinesWhere(Test(_)) == {i \in 1..Len(mermaidCode) : Test(mermaidCode[i])}

\* solid edges between nodes other than the anchors
IsFileEdge(ln) == ln.t = "edge" /\ ln.a # startId /\ ln.b # endId
IsExternalEdge(ln) == ln.t = "extedge"

\* the identifiers the ordering loop never dequeued
StuckIds == {id \in Range(FileIds) : MapGetOr0(inDegreeMap, id) > 0}

(***************************************************************************)
(* C1: the backbone order, before truncation, contains the identifier of   *)
(* every file node exactly once: none is missing, none is repeated, and    *)
(* nothing else is in it.                                                  *)
(***************************************************************************)
C1_BackbonePermutation ==
    pc \in {"ordered", "done"} =>
        /\ NoRepeats(topoOrder)
        /\ Range(topoOrder) = Range(FileIds)

\* three files, some of them on a cycle (left over by the loop), some not
C1_Witness ==
    /\ pc = "ordered"
    /\ Len(files) = 3
    /\ StuckIds # {}
    /\ StuckIds # Range(FileIds)
    /\ Len(topoOrder) = 3

(***************************************************************************)
(* C2: when the file-to-file import graph is acyclic, every file precedes  *)
(* in the backbone each different file it imports.                         *)
(***************************************************************************)
C2_TopologicalOrder ==
    (pc \in {"ordered", "done"} /\ AcyclicImports) =>
        \A i, j \in 1..Len(files) :
            (i # j /\ ImportsFile(i, j)) => PositionOf(FileIds[i]) < PositionOf(FileIds[j])

(***************************************************************************)
(* C3: when the ordering loop ends with fewer identifiers than files, the  *)
(* backbone is what the loop produced followed by the identifiers not yet  *)
(* in it, in collection order, and the builder goes on to render; two      *)
(* files importing each other come out in collection order.                *)
(***************************************************************************)
\* the file identifiers missing from order, in collection order, each once
RECURSIVE MissingInCollectionOrder(_, _)
MissingInCollectionOrder(ids, order) ==
    IF ids = <<>> THEN <<>>
    ELSE IF Head(ids) \in Range(order)
         THEN MissingInCollectionOrder(Tail(ids), order)
         ELSE <<Head(ids)>> \o MissingInCollectionOrder(Tail(ids), order \o <<Head(ids)>>)

C3_FallbackAppend ==
    [][(pc = "kahn" /\ q = <<>> /\ Len(topoOrder) < Len(files)) =>
            /\ pc' = "ordered"
            /\ topoOrder' = topoOrder \o MissingInCollectionOrder(FileIds, topoOrder)
            /\ (Len(files) = 2 /\ ImportsFile(1, 2) /\ ImportsFile(2, 1)) => topoOrder' = FileIds
      ]_vars

\* a loop result of one identifier completed with two files of a cycle
C3_Witness ==
    /\ pc = "ordered"
    /\ Len(files) = 3
    /\ Cardinality(StuckIds) = 2
    /\ topoOrder = FileIds
    /\ ImportsFile(2, 3) /\ ImportsFile(3, 2)

(***************************************************************************)
(* C4: every occurrence of an import that resolves to a collected file     *)
(* gives exactly one solid edge from the importing file's node to that     *)
(* file's node (self-imports and repetitions included), and every solid    *)
(* edge between nodes joins the nodes of two collected files.              *)
(***************************************************************************)
\* the import occurrences <<file, position>> from node x that resolve to node y
OccurrencesBetween(x, y) ==
    {<<i, k>> \in Occurrences :
        /\ FileIds[i] = x
        /\ \E j \in 1..Len(files) : FileIds[j] = y /\ ResolvesTo(i, k, j)}

C4_OneEdgePerResolvedImport ==
    pc = "done" =>
        /\ \A x, y \in Range(FileIds) :
              Cardinality(LinesWhere(LAMBDA ln : IsFileEdge(ln) /\ ln.a = x /\ ln.b = y))
                 = Cardinality(OccurrencesBetween(x, y))
        /\ \A i \in LinesWhere(IsFileEdge) :
              mermaidCode[i].a \in Range(FileIds) /\ mermaidCode[i].b \in Range(FileIds)

\* a file that imports itself and imports another file twice
C4_Witness ==
    /\ pc = "done"
    /\ \E x, y \in Range(FileIds) :
          /\ x # y
          /\ Cardinality(LinesWhere(LAMBDA ln : IsFileEdge(ln) /\ ln.a = x /\ ln.b = x)) = 1
          /\ Cardinality(LinesWhere(LAMBDA ln : IsFileEdge(ln) /\ ln.a = x /\ ln.b = y)) = 2

(***************************************************************************)
(* C5: an import that resolves to no file gives exactly one edge to an     *)
(* external node labelled with the import string when the string does not  *)
(* start with ".", and nothing when it does; a string that starts with     *)
(* neither "." nor "/" resolves to no file even when a file of that name   *)
(* lies next to the importing file.                                        *)
(***************************************************************************)
\* the unresolved occurrences of the string s in the files of node x
UnresolvedOccurrences(x, s) ==
    {<<i, k>> \in Occurrences :
        /\ FileIds[i] = x
        /\ ImportsOf(i)[k] = s
        /\ Unresolved(i, k)}

\* the occurrences in the files of node x that resolve to an uncollected file
OutsideOccurrences(x) ==
    {<<i, k>> \in Occurrences :
        /\ FileIds[i] = x
        /\ ~Unresolved(i, k)
        /\ \A j \in 1..Len(files) : ~ResolvesTo(i, k, j)}

AllImportStrings == UNION {Range(ImportsOf(i)) : i \in 1..Len(files)}

C5_UnresolvedImports ==
    pc = "done" =>
        /\ \A x \in Range(FileIds) : \A s \in AllImportStrings :
              Cardinality(LinesWhere(LAMBDA ln : IsExternalEdge(ln) /\ ln.a = x /\ ln.l = s))
                 = IF StartsWith(s, ".") THEN 0 ELSE Cardinality(UnresolvedOccurrences(x, s))
        /\ \A i \in LinesWhere(IsExternalEdge) :
              /\ mermaidCode[i].l \in AllImportStrings
              /\ mermaidCode[i].a \in Range(FileIds)
        \* nothing is emitted for the unresolved relative imports: the solid
        \* edges are as many as the other occurrences
        /\ Cardinality(LinesWhere(LAMBDA ln : IsFileEdge(ln) \/ IsExternalEdge(ln)))
              = Cardinality({<<i, k>> \in Occurrences :
                                /\ ~(Unresolved(i, k) /\ StartsWith(ImportsOf(i)[k], "."))
                                /\ <<i, k>> \notin OutsideOccurrences(FileIds[i])})
        /\ \A i \in 1..Len(files) : \A k \in 1..Len(ImportsOf(i)) :
              (~StartsWith(ImportsOf(i)[k], ".") /\ ~StartsWith(ImportsOf(i)[k], "/"))
                 => Unresolved(i, k)

\* a file holding an unresolved relative import and the package import d.x, with
\* a regular file d.x next to it: one edge in all, to the external node d.x
C5_Witness ==
    /\ pc = "done"
    /\ \E i \in 1..Len(files) :
          /\ ImportsOf(i) = <<"./x", "d.x">>
          /\ IsRegularFile(PathJoin(PathDirname(files[i].path), "d.x"))
          /\ LinesWhere(LAMBDA ln : IsFileEdge(ln) \/ IsExternalEdge(ln))
                = LinesWhere(LAMBDA ln : ln = Line("extedge", FileIds[i], "ext_d_x", "d.x", 0))
          /\ Cardinality(LinesWhere(LAMBDA ln : IsExternalEdge(ln))) = 1

(***************************************************************************)
(* C6: two unresolved imports get the same external node identifier        *)
(* exactly when their strings are equal once every character outside       *)
(* [a-zA-Z0-9_] is replaced by "_" (equal strings always do; d.x and d-x   *)
(* do too), and the file blocks are those of the collected files: none is  *)
(* created for an external import.                                         *)
(***************************************************************************)
C6_ExternalNodePerSanitizedString ==
    pc # "start" =>
        /\ \A i, j \in LinesWhere(IsExternalEdge) :
              /\ (mermaidCode[i].b = mermaidCode[j].b)
                    <=> (ReplaceNonIdChars(mermaidCode[i].l) = ReplaceNonIdChars(mermaidCode[j].l))
              /\ (mermaidCode[i].l = mermaidCode[j].l) => (mermaidCode[i].b = mermaidCode[j].b)
        /\ Cardinality(LinesWhere(LAMBDA ln : ln.t = "subgraph")) = Len(files)
        /\ \A i \in LinesWhere(LAMBDA ln : ln.t = "subgraph") :
              \E f \in 1..Len(files) : mermaidCode[i].l = files[f].name

\* C6 as stated: the same external identifier if and only if the same string
C6_ExternalNodePerString ==
    pc # "start" =>
        \A i, j \in LinesWhere(IsExternalEdge) :
            (mermaidCode[i].b = mermaidCode[j].b) <=> (mermaidCode[i].l = mermaidCode[j].l)

\* external edges for two different strings that get one identifier
C6_Witness ==
    /\ pc = "done"
    /\ \E i, k \in LinesWhere(IsExternalEdge) :
          /\ mermaidCode[i].l # mermaidCode[k].l
          /\ mermaidCode[i].b = mermaidCode[k].b

(***************************************************************************)
(* C7: the Start and End anchors are declared, Start --> f is emitted      *)
(* exactly for the file nodes f no file-to-file edge targets, and          *)
(* f --> End exactly for the file nodes that are the source of no edge.    *)
(***************************************************************************)
C7_Anchors ==
    pc = "done" =>
        /\ \E i \in 1..Len(mermaidCode) : mermaidCode[i] = Line("anchor", startId, "", "Start", 0)
        /\ \E i \in 1..Len(mermaidCode) : mermaidCode[i] = Line("anchor", endId, "", "End", 0)
        /\ \A f \in Range(FileIds) :
              /\ (\E i \in 1..Len(mermaidCode) : mermaidCode[i] = Line("edge", startId, f, "", 0))
                    <=> LinesWhere(LAMBDA ln : IsFileEdge(ln) /\ ln.b = f) = {}
              /\ (\E i \in 1..Len(mermaidCode) : mermaidCode[i] = Line("edge", f, endId, "", 0))
                    <=> LinesWhere(LAMBDA ln : (IsFileEdge(ln) \/ IsExternalEdge(ln)) /\ ln.a = f) = {}

\* two files: the first only imports a package (an entry that is no leaf),
\* the second only is imported (a leaf that is no entry)
C7_Witness ==
    /\ pc = "done"
    /\ Len(files) = 2
    /\ LinesWhere(LAMBDA ln : IsExternalEdge(ln) /\ ln.a = FileIds[1]) # {}
    /\ LinesWhere(LAMBDA ln : IsFileEdge(ln) /\ ln.b = FileIds[2]) # {}
    /\ \E i \in 1..Len(mermaidCode) : mermaidCode[i] = Line("edge", startId, FileIds[1], "", 0)
    /\ \E i \in 1..Len(mermaidCode) : mermaidCode[i] = Line("edge", FileIds[2], endId, "", 0)
    /\ ~\E i \in 1..Len(mermaidCode) : mermaidCode[i] = Line("edge", FileIds[1], endId, "", 0)
    /\ ~\E i \in 1..Len(mermaidCode) : mermaidCode[i] = Line("edge", startId, FileIds[2], "", 0)

(***************************************************************************)
(* The file blocks of the diagram text: block i runs from the i-th         *)
(* "subgraph" line to the first "end" line after it.                       *)
(***************************************************************************)
\* the positions from i on of the lines of type t, ascending
RECURSIVE PositionsFrom(_, _)
PositionsFrom(t, i) ==
    IF i > Len(mermaidCode) THEN <<>>
    ELSE (IF mermaidCode[i].t = t THEN <<i>> ELSE <<>>) \o PositionsFrom(t, i + 1)

SubgraphPositions == PositionsFrom("subgraph", 1)

\* the lines inside block i
BlockLines(i) ==
    LET first == SubgraphPositions[i]
        last == Head(PositionsFrom("end", first))
    IN SubSeq(mermaidCode, first + 1, last - 1)

\* the labels of the lines of type t of a block, in order
RECURSIVE LabelsOf(_, _)
LabelsOf(lines, t) ==
    IF lines = <<>> THEN <<>>
    ELSE (IF Head(lines).t = t THEN <<Head(lines).l>> ELSE <<>>) \o LabelsOf(Tail(lines), t)

(***************************************************************************)
(* C8: every collected file gets exactly one block; the block holds        *)
(* exactly one fallback node (basename and line count) when the file has   *)
(* no extracted function and no extracted class, and none otherwise; no    *)
(* block is empty.                                                         *)
(***************************************************************************)
C8_BlocksAndFallback ==
    pc # "start" =>
        /\ Len(SubgraphPositions) = Len(files)
        /\ Len(PositionsFrom("end", 1)) = Len(files)
        /\ \A i \in 1..Len(files) :
              /\ mermaidCode[SubgraphPositions[i]].l = files[i].name
              /\ BlockLines(i) # <<>>
              /\ \A j \in 1..Len(BlockLines(i)) : BlockLines(i)[j].t \in {"fn", "class", "fallback"}
              /\ LET fallbacks == {j \in 1..Len(BlockLines(i)) : BlockLines(i)[j].t = "fallback"}
                 IN IF nodes[i].functions = <<>> /\ nodes[i].classes = <<>>
                    THEN /\ Cardinality(fallbacks) = 1
                         /\ \A j \in fallbacks :
                               /\ BlockLines(i)[j].l = PathBasename(files[i].name)
                               /\ BlockLines(i)[j].n = files[i].lineCount
                    ELSE fallbacks = {}

\* two files, the first without declarations, the second with one class only
C8_Witness ==
    /\ pc = "done"
    /\ Len(files) = 2
    /\ nodes[1].functions = <<>> /\ nodes[1].classes = <<>>
    /\ nodes[2].functions = <<>> /\ Len(nodes[2].classes) = 1
    /\ Len(BlockLines(1)) = 1 /\ BlockLines(1)[1].t = "fallback"
    /\ Len(BlockLines(2)) = 1 /\ BlockLines(2)[1].t = "class"

(***************************************************************************)
(* C9: a block holds at most 8 function nodes and at most 8 class nodes:   *)
(* the first 8 of each kind in extraction order, functions first.          *)
(***************************************************************************)
C9_SymbolCap ==
    pc # "start" =>
        \A i \in 1..Len(files) :
            LET fns == LabelsOf(BlockLines(i), "fn")
                cls == LabelsOf(BlockLines(i), "class")
            IN /\ Len(fns) <= 8 /\ Len(cls) <= 8
               /\ Len(fns) = Min(8, Len(nodes[i].functions))
               /\ Len(cls) = Min(8, Len(nodes[i].classes))
               /\ \A j \in 1..Len(fns) : fns[j] = nodes[i].functions[j]
               /\ \A j \in 1..Len(cls) : cls[j] = nodes[i].classes[j]

\* a file with more than 8 functions: 8 function nodes, the ninth name not rendered
C9_Witness ==
    /\ pc = "done"
    /\ \E i \in 1..Len(files) :
          /\ Len(nodes[i].functions) > 8
          /\ Len(LabelsOf(BlockLines(i), "fn")) = 8
          /\ nodes[i].functions[9] \notin Range(LabelsOf(BlockLines(i), "fn"))
          /\ Len(LabelsOf(BlockLines(i), "class")) = 1

(***************************************************************************)
(* Vocabulary of the collector's properties, stated on the tree.           *)
(***************************************************************************)
\* the path contains a denylisted substring
Denylisted(p) == \E i \in 1..Len(ignorePatterns) : Includes(p, ignorePatterns[i])

\* the lower-cased extension is allowlisted, or there is none
EligibleExtension(p) ==
    \/ PathExtname(p) = ""
    \/ toLowerCase(PathExtname(p)) \in textExtensions

TreePaths == DOMAIN tree.node

IsRegular(p) == tree.node[p].kind \in {"file", "unreadable"}

TimesReturned(p) == Cardinality({i \in 1..Len(files) : files[i].path = p})

RECURSIVE TraversalOrder(_)
RECURSIVE TraversalOfEntries(_, _)
TraversalOrder(p) ==
    IF tree.node[p].kind = "dir" THEN TraversalOfEntries(p, 1) ELSE <<p>>

TraversalOfEntries(dir, i) ==
    IF i > Len(tree.node[dir].entries) THEN <<>>
    ELSE TraversalOrder(PathJoin(dir, tree.node[dir].entries[i])) \o TraversalOfEntries(dir, i + 1)

\* a readable regular file with an eligible path
Collectable(p) == tree.node[p].kind = "file" /\ ~Denylisted(p) /\ EligibleExtension(p)

\* the eligible files that can be read, in the order of the walk
ExpectedFiles == SelectSeq(TraversalOrder(tree.root), Collectable)

ReturnedPaths == [i \in 1..Len(files) |-> files[i].path]

IsPrefix(s, t) == Len(s) <= Len(t) /\ s = SubSeq(t, 1, Len(s))

HasEffect(kind) == EffectsOfKind(kind) # {}

\* the collector of the running operation has returned, and returned nothing
\* (the standalone generator stores what it collected when it did not throw)
CollectedNothing ==
    /\ Len(files) = 0
    /\ \/ command \in ExtensionCommands /\ scan = "returned"
       \/ command = "generate-flow" /\ step = "finished" /\ ~HasEffect("thrown")

\* what the operation shows when it has nothing to do
NothingToDoReport ==
    IF command = "generate-flow"
    THEN <<Effect("stderr", "No files found to analyze."), Effect("exit", "1")>>
    ELSE <<Effect("warning", NoFilesWarning)>>

(***************************************************************************)
(* C12: when the collector returns no files, the command (each of the      *)
(* three commands of the extension, and main of the standalone generator)  *)
(* ends having reported exactly the nothing-to-do outcome: the diagram     *)
(* builder was not called, no panel was created, no file was written, no   *)
(* renderer was started, nothing was thrown or reported as an error; and   *)
(* no run that collected a file, or whose collector failed, ends with that *)
(* same report.                                                            *)
(***************************************************************************)
C12_NothingToDo ==
    command \in ExtensionCommands \cup {"generate-flow"} =>
        /\ CollectedNothing =>
              /\ pc = "idle"
              /\ \A kind \in {"convert", "panel", "write", "spawn", "open", "error", "thrown"} :
                    ~HasEffect(kind)
              /\ ~disk.mmd.exists /\ ~disk.raw.exists /\ ~disk.svg
              /\ attempts = <<>>
              /\ step = "finished" => effects = NothingToDoReport
        /\ (step = "finished" /\ effects = NothingToDoReport) => CollectedNothing

\* the export command has ended with the warning alone, on a tree that holds
\* a regular file (of an extension the collector does not take)
C12_Witness ==
    /\ command = "exportWorkspace"
    /\ step = "finished"
    /\ effects = <<Effect("warning", NoFilesWarning)>>
    /\ ~Denylisted(tree.root)
    /\ \E p \in TreePaths : tree.node[p].kind = "file"

(***************************************************************************)
(* Vocabulary of the resolver's properties.                                *)
(***************************************************************************)
\* the source extensions the resolver appends
SourceExtensions == <<".ts", ".js", ".tsx", ".jsx">>

\* the candidates as C13 lists them: the exact path, the path with each
\* source extension, an index file with each of the same extensions
ListedCandidates(base) ==
    <<base>>
    \o [i \in 1..Len(SourceExtensions) |-> base \o SourceExtensions[i]]
    \o [i \in 1..Len(SourceExtensions) |-> PathJoin(base, "index" \o SourceExtensions[i])]

\* the first member of cands that is a regular file on disk, Null if none is
FirstOnDisk(cands) ==
    IF \E i \in 1..Len(cands) : cands[i] \in DiskFiles
    THEN cands[CHOOSE i \in 1..Len(cands) :
                  cands[i] \in DiskFiles /\ \A j \in 1..(i - 1) : cands[j] \notin DiskFiles]
    ELSE Null

\* the import occurrences whose string starts with "." or "/"
PathOccurrences ==
    {<<i, k>> \in Occurrences :
        StartsWith(ImportsOf(i)[k], ".") \/ StartsWith(ImportsOf(i)[k], "/")}

BaseOf(i, k) == PathResolve(PathDirname(files[i].path), ImportsOf(i)[k])

(***************************************************************************)
(* C13: when no probe throws, an import string that starts with "." or "/" *)
(* resolves to the first of the listed candidates (the exact path, the     *)
(* path with .ts, .js, .tsx, .jsx, then index.ts, index.js, index.tsx,     *)
(* index.jsx inside it) that is a regular file, and to null exactly when   *)
(* none of them is.                                                        *)
(***************************************************************************)
C13_ProbeOrder ==
    (pc = "built" /\ disk.unstatable = {}) =>
        \A o \in PathOccurrences :
            resolveImport(files[o[1]].path, ImportsOf(o[1])[o[2]])
                = FirstOnDisk(ListedCandidates(BaseOf(o[1], o[2])))

\* the resolver of the program that runs, on the k-th import of file i
ResolverResult(i, k) ==
    IF command = "buildMermaid"
    THEN resolveImportStandalone(files[i].path, ImportsOf(i)[k])
    ELSE resolveImport(files[i].path, ImportsOf(i)[k])

\* the candidates the probes of which return
Statable(cands) == SelectSeq(cands, LAMBDA c : c \notin disk.unstatable)

(***************************************************************************)
(* C14: a probe that throws counts as a candidate that does not exist.     *)
(* In the extension and in the standalone generator alike, the resolver    *)
(* goes on with the next candidate and returns the first regular file      *)
(* among the candidates whose probe returns; nothing is thrown out of it   *)
(* and the diagram is built.                                               *)
(***************************************************************************)
C14_ProbeErrorsSwallowed ==
    pc \in {"built", "standalone"} =>
        /\ ~HasEffect("thrown")
        /\ mermaidCode # <<>>
        /\ \A o \in PathOccurrences :
              ResolverResult(o[1], o[2]) = FirstOnDisk(Statable(Candidates(BaseOf(o[1], o[2]))))

\* the module paths of the import statements and require calls of a content,
\* in the order of the text
PathsInTextOrder(content) == ScanCaptures(content, {"import", "require"})

(***************************************************************************)
(* C15: the imports extracted from a file are the module paths of its      *)
(* import statements and require calls in the order of the text,           *)
(* duplicates included: a require call written before an import statement  *)
(* comes before it in the result.                                          *)
(***************************************************************************)
C15_ImportsInTextOrder ==
    pc = "built" =>
        \A i \in 1..Len(files) : nodes[i].imports = PathsInTextOrder(files[i].content)

DashedLines == SelectSeq(mermaidCode, LAMBDA ln : ln.t = "dashed")

C17_PipelineCut ==
    pc \in {"done", "drawn"} =>
        LET k == IF Len(topoOrder) <= 200 THEN Len(topoOrder) ELSE 200
        IN /\ Len(DashedLines) = k - 1
           /\ \A i \in 1..(k - 1) :
                /\ DashedLines[i].a = topoOrder[i]
                /\ DashedLines[i].b = topoOrder[i + 1]
           /\ Len(DashedLines) <= 199
           /\ (Len(files) = 1 \/ Len(topoOrder) = 1) => DashedLines = <<>>

\* more than 200 files were ordered and the chain stops at the 200th entry
C17_Witness ==
    /\ pc = "drawn"
    /\ Len(topoOrder) > 200
    /\ Len(DashedLines) = 199
    /\ DashedLines[199].b = topoOrder[200]

(***************************************************************************)
(* C18: the renderer is tried through two strategies in a fixed order.     *)
(* As claimed: the local binary first, then the execution through the      *)
(* package manager, that is, whenever npm exec is started the local binary *)
(* was tried before it and was unavailable or failed.                      *)
(***************************************************************************)
StrategyAt(i) == attempts[i].strategy

C18_LocalFirst ==
    \A i \in 1..Len(attempts) :
        (StrategyAt(i) = "npm exec" /\ attempts[i].started) =>
            \E j \in 1..(i - 1) : StrategyAt(j) = "local" /\ attempts[j].reason # ""

\* the positions in effects where a renderer subprocess was started
Spawns == SelectSeq(effects, LAMBDA e : e.kind = "spawn")

\* the exports that start npm exec first
ExecFirstCommands == {"exportWorkspace", "runExportMermaid", "export-flow"}

(***************************************************************************)
(* C18, amended: runExportMermaid (called on its own or by the export      *)
(* command) and the second version of the export script start npm exec     *)
(* first and the local binary second; the first version of the script      *)
(* looks for the local binary first and starts npm exec only when there is *)
(* none.  In all of them at most two strategies are tried, the second is   *)
(* tried only after the first was unavailable or failed, and nothing is    *)
(* started after a strategy succeeded.                                     *)
(***************************************************************************)
C18_FixedOrder ==
    /\ Len(attempts) <= 2
    /\ Len(attempts) >= 1 =>
          StrategyAt(1) = (IF command \in ExecFirstCommands THEN "npm exec" ELSE "local")
    /\ Len(attempts) = 2 =>
          /\ StrategyAt(2) = (IF command \in ExecFirstCommands THEN "local" ELSE "npm exec")
          /\ attempts[1].reason # ""
          /\ command = "export-flow-v1" => ~attempts[1].started
    /\ Spawns = [i \in 1..Len(Spawns) |->
                    Effect("spawn", SelectSeq(attempts, LAMBDA a : a.started)[i].strategy)]
    /\ disk.svg => attempts[Len(attempts)].reason = ""
    /\ \A i \in 1..Len(attempts) :
          (attempts[i].reason = "" /\ attempts[i].started) => i = Len(attempts)

\* npm exec failed and the local binary was started after it
C18_Witness ==
    /\ command \in ExecFirstCommands
    /\ Len(attempts) = 2
    /\ attempts[1].reason # ""
    /\ attempts[2].started
    /\ Len(Spawns) = 2

(***************************************************************************)
(* C19: when every renderer strategy has failed, the export ends in one    *)
(* failure of that operation alone: one error is surfaced (shown by the    *)
(* command, thrown by runExportMermaid called on its own), no SVG is       *)
(* opened, and the error's text carries the failure reason of each         *)
(* strategy that was attempted, not only the last one's.                   *)
(***************************************************************************)
AllStrategiesFailed ==
    /\ command \in {"exportWorkspace", "runExportMermaid"}
    /\ step = "finished"
    /\ attempts # <<>>
    /\ \A i \in 1..Len(attempts) : attempts[i].reason # ""

SurfacedErrors == SelectSeq(effects, LAMBDA e : e.kind \in {"error", "thrown"})

C19_AggregatedError ==
    AllStrategiesFailed =>
        /\ Len(SurfacedErrors) = 1
        /\ EffectsOfKind("open") = {}
        /\ \A i \in 1..Len(attempts) : Includes(SurfacedErrors[1].text, attempts[i].reason)

(***************************************************************************)
(* C20: if wholeflow.mmd does not exist in the root, or holds no diagram   *)
(* text (nothing but fences, the language tag and white space), the export *)
(* step fails with an error before wholeflow_raw.mmd is written, before    *)
(* the temporary config is written and before any renderer subprocess is   *)
(* started.  Stated of the exports that read the wholeflow.mmd they find:  *)
(* runExportMermaid called on its own and the two versions of the script.  *)
(***************************************************************************)
\* what a file holds besides its fences, its language tag and white space
DiagramTextIn(content) ==
    LET bare == trim(RemoveAll(content, Fence))
    IN IF StartsWith(toLowerCase(bare), "mermaid") THEN trim(SubSeq(bare, 8, Len(bare)))
       ELSE bare

NothingToExport == ~disk.mmd.exists \/ DiagramTextIn(disk.mmd.content) = ""

ExportsOfFoundFile == {"runExportMermaid", "export-flow", "export-flow-v1"}

C20_FailsBeforeWriting ==
    (command \in ExportsOfFoundFile /\ step # "called" /\ NothingToExport) =>
        /\ step = "finished"
        /\ EffectsOfKind("write") = {}
        /\ EffectsOfKind("spawn") = {}
        /\ attempts = <<>>
        /\ ~disk.raw.exists
        /\ ~disk.config
        /\ EffectsOfKind("thrown") \cup EffectsOfKind("stderr") # {}

(***************************************************************************)
(* C21: the command codeToFlowchart.generate reads the whole active file   *)
(* and renders the flowchart the conversion function makes of that file's  *)
(* content.  The active file is taken to be any of the files of the        *)
(* folder: once the command has ended without an error, the panel shows    *)
(* convertToFlowchart of one of them.                                      *)
(***************************************************************************)
PanelTexts == {effects[i].text : i \in EffectsOfKind("panel")}

C21_ActiveFileRendered ==
    (command = "generate" /\ step = "finished" /\ scan = "returned" /\ files # <<>>) =>
        \E i \in 1..Len(files) : convertToFlowchart(files[i].content) \in PanelTexts

(***************************************************************************)
(* C22: the round trip of the intermediate file.  Whatever text            *)
(* convertFolderToFlowchart has produced, once exportWorkspace has written *)
(* it between the fences into wholeflow.mmd and runExportMermaid has       *)
(* unwrapped it, wholeflow_raw.mmd, the file the renderer is given, holds  *)
(* exactly that text.                                                      *)
(***************************************************************************)
C22_RoundTrip ==
    (command = "exportWorkspace" /\ disk.raw.exists) =>
        /\ disk.mmd.content = WrapMermaid(RenderText(mermaidCode))
        /\ disk.raw.content = RenderText(mermaidCode)

(***************************************************************************)
(* C23: the denylist test is a substring test on the whole path of each    *)
(* entry, the scan root included.  When the root's own path contains a     *)
(* denylisted substring the collector collects nothing, does not reject,   *)
(* and the command ends with the nothing-to-do warning alone; and a file   *)
(* whose name contains a denylisted substring is never collected, whatever *)
(* directory holds it.                                                     *)
(***************************************************************************)
C23_SubstringDenylist ==
    (command \in ExtensionCommands /\ scan # "idle") =>
        /\ Denylisted(tree.root) =>
              /\ files = <<>>
              /\ scan # "rejected"
              /\ pc = "idle"
              /\ step = "finished" => effects = <<Effect("warning", NoFilesWarning)>>
        /\ \A p \in TreePaths : Denylisted(PathBasename(p)) => TimesReturned(p) = 0

\* a command has ended with the warning on a root below the folder scout,
\* which holds a readable .ts file the name of which is not denylisted
C23_Witness ==
    /\ command \in ExtensionCommands
    /\ step = "finished"
    /\ effects = <<Effect("warning", NoFilesWarning)>>
    /\ Denylisted(tree.root)
    /\ \A i \in 1..Len(Segments(tree.root)) :
          \A j \in 1..Len(ignorePatterns) : Segments(tree.root)[i] # ignorePatterns[j]
    /\ \E p \in TreePaths :
          /\ tree.node[p].kind = "file"
          /\ EligibleExtension(p)
          /\ ~Denylisted(PathBasename(p))

(***************************************************************************)
(* C24: the degree counters agree with the edges written.  When the        *)
(* identifiers of the file nodes are pairwise distinct, once the graph is  *)
(* built outgoing[f] is the number of solid edges written with source f    *)
(* (to files and to external nodes) and incoming[f] is the number of       *)
(* file-to-file edges written with target f, for every file f; the         *)
(* incoming Map holds the file nodes only, so an external edge changes no  *)
(* incoming counter.                                                       *)
(***************************************************************************)
GraphBuilt == pc \in {"built", "kahn", "ordered", "done"}

C24_CountersMatchEdges ==
    (GraphBuilt /\ NoRepeats(FileIds)) =>
        /\ \A f \in Range(FileIds) :
              /\ MapGetOr0(outgoing, f)
                    = Cardinality(LinesWhere(LAMBDA ln :
                            (IsFileEdge(ln) \/ IsExternalEdge(ln)) /\ ln.a = f))
              /\ MapGetOr0(incoming, f)
                    = Cardinality(LinesWhere(LAMBDA ln : IsFileEdge(ln) /\ ln.b = f))
        /\ Range(MapKeys(incoming)) = Range(FileIds)
        /\ Range(MapKeys(outgoing)) = Range(FileIds)

\* a file with an edge to a file and an edge to an external node
C24_Witness ==
    /\ GraphBuilt
    /\ NoRepeats(FileIds)
    /\ \E f \in Range(FileIds) :
          /\ LinesWhere(LAMBDA ln : IsExternalEdge(ln) /\ ln.a = f) # {}
          /\ LinesWhere(LAMBDA ln : IsFileEdge(ln) /\ ln.a = f) # {}
          /\ MapGetOr0(outgoing, f) = 2
    /\ \E f \in Range(FileIds) : MapGetOr0(incoming, f) = 1

(***************************************************************************)
(* C25: the ordering loop terminates on every input (cycles, self-imports, *)
(* repeated imports and external targets included): once entered, its      *)
(* queue gets empty.  While it runs no identifier is enqueued twice: the   *)
(* identifiers dequeued so far and those in the queue are pairwise         *)
(* distinct, the queue the loop starts with holds identifiers of in-degree *)
(* zero, and an iteration enqueues an identifier only when it lowers its   *)
(* in-degree from 1 to 0.                                                  *)
(***************************************************************************)
C25_KahnTerminates ==
    /\ [](pc = "kahn" => NoRepeats(topoOrder \o q))
    /\ []((pc = "kahn" /\ topoOrder = <<>>) =>
              \A id \in Range(q) : MapGetOr0(inDegreeMap, id) = 0)
    /\ [][(pc = "kahn" /\ pc' = "kahn") =>
              /\ Len(q') >= Len(q) - 1
              /\ SubSeq(q', 1, Len(q) - 1) = Tail(q)
              /\ \A i \in Len(q)..Len(q') :
                    /\ MapGetOr0(inDegreeMap, q'[i]) = 1
                    /\ MapGetOr0(inDegreeMap', q'[i]) = 0]_vars
    /\ (pc = "kahn") ~> (pc = "kahn" /\ q = <<>>)

\* the loop has ended having dequeued a file it enqueued on the way, with a
\* cycle left over
C25_Witness ==
    /\ pc = "kahn"
    /\ q = <<>>
    /\ \E id \in Range(topoOrder) : MapGetOr0(incoming, id) >= 1
    /\ StuckIds # {}

(***************************************************************************)
(* C26: external nodes take part in the adjacency as successors only.      *)
(* When no external identifier equals a file identifier, no external       *)
(* identifier is ever in the queue or in the backbone order, none is an    *)
(* end of a dashed edge, and no external node is connected to Start or to  *)
(* End, although no edge leaves an external node.                          *)
(***************************************************************************)
ExternalIds == {mermaidCode[i].b : i \in LinesWhere(IsExternalEdge)}

C26_ExternalsOnlySuccessors ==
    (GraphBuilt /\ ExternalIds \cap Range(FileIds) = {}) =>
        \A e \in ExternalIds :
            /\ e \notin Range(q) \cup Range(topoOrder)
            /\ ~MapHas(adjacency, e)
            /\ LinesWhere(LAMBDA ln : ln.t \in {"dashed", "edge"} /\ (ln.a = e \/ ln.b = e)) = {}

\* a finished diagram with an external node two files point at, Start and End
\* connected to files
C26_Witness ==
    /\ pc = "done"
    /\ ExternalIds \cap Range(FileIds) = {}
    /\ \E e \in ExternalIds :
          Cardinality(LinesWhere(LAMBDA ln : IsExternalEdge(ln) /\ ln.b = e)) = 2
    /\ LinesWhere(LAMBDA ln : ln.t = "dashed") # {}
    /\ LinesWhere(LAMBDA ln : ln.t = "edge" /\ ln.a = startId) # {}

(***************************************************************************)
(* C27: identifier collisions are merged, not detected.  When two          *)
(* collected files have names that sanitize to one identifier, the         *)
(* incoming and the outgoing Map hold that identifier once, with the edges *)
(* of both files counted together; the backbone holds it once; the text    *)
(* holds one block per file all the same; and the diagram is completed     *)
(* with nothing reported.                                                  *)
(***************************************************************************)
FilesOfId(id) == {i \in 1..Len(files) : FileIds[i] = id}

CollidingIds == {id \in Range(FileIds) : Cardinality(FilesOfId(id)) > 1}

TimesIn(seq, x) == Cardinality({i \in 1..Len(seq) : seq[i] = x})

\* the k-th import of file i is drawn as a solid edge: it resolves to a
\* collected file, or to nothing while not starting with "."
DrawsEdge(i, k) ==
    \/ \E j \in 1..Len(files) : ResolvesTo(i, k, j)
    \/ Unresolved(i, k) /\ ~StartsWith(ImportsOf(i)[k], ".")

C27_CollisionsMerged ==
    (pc = "done" /\ CollidingIds # {}) =>
        /\ effects = <<>>
        /\ \A id \in CollidingIds :
              /\ TimesIn(MapKeys(incoming), id) = 1
              /\ TimesIn(MapKeys(outgoing), id) = 1
              /\ MapGetOr0(outgoing, id)
                    = Cardinality(LinesWhere(LAMBDA ln :
                            (IsFileEdge(ln) \/ IsExternalEdge(ln)) /\ ln.a = id))
              /\ MapGetOr0(outgoing, id)
                    = Cardinality({o \in Occurrences : FileIds[o[1]] = id /\ DrawsEdge(o[1], o[2])})
              /\ MapGetOr0(incoming, id)
                    = Cardinality({o \in Occurrences :
                                        \E j \in FilesOfId(id) : ResolvesTo(o[1], o[2], j)})
              /\ MapGetOr0(incoming, id)
                    = Cardinality(LinesWhere(LAMBDA ln : IsFileEdge(ln) /\ ln.b = id))
              /\ TimesIn(topoOrder, id) = 1
              /\ Cardinality(LinesWhere(LAMBDA ln : ln.t = "subgraph" /\ ln.a = id))
                    = Cardinality(FilesOfId(id))

\* a.ts and a_ts each import something: the one counter holds both edges
C27_Witness ==
    /\ pc = "done"
    /\ \E id \in CollidingIds :
          /\ MapGetOr0(outgoing, id) = 2
          /\ \A i \in FilesOfId(id) : Len(ImportsOf(i)) = 1
          /\ Cardinality(LinesWhere(LAMBDA ln : ln.t = "subgraph" /\ ln.a = id)) = 2

(***************************************************************************)
(* C28: the temporary renderer config is always cleaned up.  Whenever      *)
(* runExportMermaid (called by the export command or on its own) or the    *)
(* export script has ended after having written mmdc-temp-config.json,     *)
(* the file is no longer there, whether a strategy succeeded or all        *)
(* failed.                                                                 *)
(***************************************************************************)
WroteConfig ==
    \E i \in EffectsOfKind("write") : effects[i].text = "mmdc-temp-config.json"

C28_ConfigCleanedUp ==
    (command \in {"exportWorkspace", "runExportMermaid", "export-flow"}
        /\ step = "finished" /\ WroteConfig) => ~disk.config

(***************************************************************************)
(* C29: overlapping export runs on the same folder do not interfere.       *)
(* While an invocation of exportWorkspace waits for its renderer           *)
(* subprocess, wholeflow_raw.mmd holds the text that invocation wrote and  *)
(* the mmdc-temp-config.json it wrote is still there, whatever the other   *)
(* invocation has done in between.                                         *)
(***************************************************************************)
RendererRuns(inv) == inv.step \in {"tryExec", "tryLocal"}

ConfigWrittenBy(inv) ==
    \E i \in 1..Len(inv.effects) : inv.effects[i] = Effect("write", "mmdc-temp-config.json")

InputsIntact(inv) ==
    RendererRuns(inv) =>
        /\ disk.raw = File(MermaidTextOf(WrapMermaid(RenderText(inv.mermaidCode))))
        /\ ConfigWrittenBy(inv) => disk.config

C29_NoInterference ==
    command = "exportWorkspace" =>
        /\ InputsIntact(Invocation)
        /\ suspended.step # "none" => InputsIntact(suspended)

(***************************************************************************)
(* C30: the standalone generator and the extension agree on the graph      *)
(* core.  For the same collected files and the same file system,           *)
(* buildMermaid and convertFolderToFlowchart put the same nodes inside     *)
(* the block of each file and draw the same solid import edges, each as    *)
(* many times, once the file identifiers of the one are renamed to those   *)
(* of the other.                                                           *)
(***************************************************************************)
\* lines 98-165 of the extension as a function of the files: the lines
\* emitted when the import loop has ended
GraphCoreOf(fs) ==
    LET ns == [i \in 1..Len(fs) |-> ExtractNode(fs[i])]
        g0 == [out |-> <<Line("header", "", "", "flowchart TD", 0)>> \o AllSubgraphLines(ns),
               adjacency |-> <<>>, outgoing |-> <<>>, incoming |-> <<>>]
    IN NodeLoop(InitCounters(ns, g0), byResolvedPathOf(ns, <<>>), ns).out

\* the nodes inside a block: kind and label, the identifier left aside
InnerNodes(lines) ==
    LET inner == SelectSeq(lines, LAMBDA l : l.t \in {"fn", "class", "fallback"})
    IN [i \in 1..Len(inner) |-> <<inner[i].t, inner[i].l>>]

\* the identifier the standalone generator gives to the file the extension
\* calls id; the identifier of an external node is the same in both
Renamed(id) ==
    IF \E i \in 1..Len(files) : makeId(files[i].name) = id
    THEN LET i == CHOOSE i \in 1..Len(files) : makeId(files[i].name) = id
         IN makeId(PathRelative(RootPath, files[i].path))
    ELSE id

\* the solid import edges of a diagram, the file identifiers renamed by ren
SolidEdges(lines, ren(_)) ==
    LET solid == SelectSeq(lines, LAMBDA l : l.t \in {"edge", "extedge"})
    IN [i \in 1..Len(solid) |-> [solid[i] EXCEPT !.a = ren(@), !.b = ren(@)]]

SameMultiset(s, t) ==
    \A x \in {s[i] : i \in 1..Len(s)} \cup {t[i] : i \in 1..Len(t)} :
        TimesIn(s, x) = TimesIn(t, x)

C30_GraphCoreAgrees ==
    pc = "standalone" =>
        /\ \A i \in 1..Len(files) :
              InnerNodes(SubgraphLines(ExtractNode(files[i])))
                  = InnerNodes(ContainerLines(nodes[i]))
        /\ SameMultiset(SolidEdges(GraphCoreOf(files), Renamed),
                        SolidEdges(mermaidCode, LAMBDA id : id))

====
